---- MODULE Spec2Model ----
(***************************************************************************)
(* A model of c-kzg-4844 (jtraglia fork): the Go binding's global settings *)
(* lifecycle, the settings (de)serialisation of src/setup/settings.c and   *)
(* the KZG operations the binding calls.                                   *)
(*                                                                         *)
(* The module holds several specifications over one set of variables; a    *)
(* specification leaves the variables of the others at their idle values.  *)
(*   SpecGo        the Go binding: LoadTrustedSetup .. VerifySampleProof   *)
(*   SpecSettings  init_settings, free_settings, serialize_settings and    *)
(*                 deserialize_settings on a heap of blocks                *)
(*   SpecKzg       the binding's KZG operations on a blob, with loaded     *)
(*                 settings                                                *)
(*   SpecMetal     the Metal transform of an array of field elements       *)
(*   SpecShared    concurrent readers of one loaded KZGSettings            *)
(*   SpecGoroutines  the Go binding called from several goroutines         *)
(*   SpecThreads   one dispatch of a Metal kernel, thread by thread        *)
(*   SpecField     the kernels' field arithmetic, one function at a time   *)
(*   SpecBatch     a batch of Metal transforms                             *)
(*   SpecHandle    the accelerator's global handle, several callers        *)
(*   SpecMsm       one dispatch of msm_accumulate, thread by thread        *)
(***************************************************************************)
EXTENDS Integers, Sequences, FiniteSets, TLC

VARIABLES
    \* ---- Go binding (package ckzg4844) ----
    loaded,      \* var loaded = false
    settings,    \* var settings = C.KZGSettings{} : the state of the C object
    goCall,      \* the last call of the binding's API and what it did
    events,      \* the C library's load (OK) and free calls on `settings`, in order
    calls,       \* number of API calls made so far
    \* ---- settings (src/setup/settings.c) ----
    platform,    \* this platform: [endianness, wordsize]
    heap,        \* the allocator's blocks: block id -> [data, frees]
    src,         \* a loaded KZGSettings (the one that is serialized)
    out,         \* the caller's KZGSettings that deserialize_settings fills
    buf,         \* serialize_settings' *out (a block id, NULL before)
    out_len,     \* serialize_settings' *out_len
    ub,          \* undefined behaviour has happened (bad read, bad free)
    lastOp,      \* the last settings routine that ran and what it did
    nFree,       \* number of free_settings calls made so far
    desDone,     \* deserialize_settings has run
    \* ---- KZG operations ----
    kSetup,      \* the loaded settings' tables
    kBlob,       \* the caller's blob
    kCommitment, \* the commitment BlobToKZGCommitment returned
    kSamples,    \* the samples GetSamplesAndProofs returned
    kProofs,     \* the proofs GetSamplesAndProofs returned
    kOp,         \* the last operation called, its arguments and results
    \* ---- Metal transform (src/metal) ----
    mIn,         \* the caller's array of field elements
    mOut,        \* the caller's out array
    mOp,         \* the last transform called and its status
    \* ---- readers of one settings ----
    rd,          \* reader -> its operation, its position in it and its result
    \* ---- goroutines in the Go binding ----
    gr,          \* goroutine -> the call it is in and its position in it
    \* ---- one dispatch of a kernel (src/metal/kzg_kernels.metal) ----
    kern,        \* the kernel dispatched, its arguments and the buffer's first contents
    dataBuffer,  \* the device buffer `data` of the kernels
    thr,         \* thread (gid) -> its position in the kernel and its locals
    \* ---- the kernels' field arithmetic, one function at a time ----
    fIn,         \* the arguments: field elements (four limbs each) or limbs
    fOut,        \* what the function returned
    fOp,         \* the function called
    \* ---- a batch of Metal transforms (src/metal/metal_runtime.m) ----
    bIn,         \* the caller's in arrays
    bOut,        \* the caller's out arrays
    bOp,         \* the last batch called, its status and what it found in out
    \* ---- the accelerator's global handle (metal_poc/MetalKZGAccelerator) ----
    gHandle,     \* static metal_kzg_handle g_metal_handle = NULL
    caller,      \* caller -> the function it is in, its position and its handle
    contexts,    \* the contexts metal_kzg_init created and nobody deleted
    lost,        \* the contexts whose handle was overwritten while they existed
    nInit,       \* number of metal_kzg_init calls made so far
    \* ---- one dispatch of msm_accumulate (the Go binding's kernels) ----
    msmArgs,     \* the buffers points and scalars, and result[0] at the dispatch
    mutex,       \* device atomic_uint *mutex
    msmResult,   \* result[0]
    msm          \* thread (index) -> its position in the kernel and its locals

goVars == <<loaded, settings, goCall, events, calls>>

setVars == <<platform, heap, src, out, buf, out_len, ub, lastOp, nFree, desDone>>

kzgVars == <<kSetup, kBlob, kCommitment, kSamples, kProofs, kOp>>

metalVars == <<mIn, mOut, mOp>>

sharedVars == <<rd>>

grVars == <<gr>>

threadVars == <<kern, dataBuffer, thr>>

fieldVars == <<fIn, fOut, fOp>>

\* The variables of the specifications of the GPU code's parts, and what the
\* actions of one part leave alone.
batchVars == <<bIn, bOut, bOp>>

handleVars == <<gHandle, caller, contexts, lost, nInit>>

msmVars == <<msmArgs, mutex, msmResult, msm>>

gpuVars == <<threadVars, fieldVars, batchVars, handleVars, msmVars>>

hostVars == <<goVars, setVars, kzgVars, metalVars, sharedVars, grVars>>

notThreadVars == <<hostVars, fieldVars, batchVars, handleVars, msmVars>>

notFieldVars == <<hostVars, threadVars, batchVars, handleVars, msmVars>>

notBatchVars == <<hostVars, threadVars, fieldVars, handleVars, msmVars>>

notHandleVars == <<hostVars, threadVars, fieldVars, batchVars, msmVars>>

notMsmVars == <<hostVars, threadVars, fieldVars, batchVars, handleVars>>

vars == <<goVars, setVars, kzgVars, metalVars, sharedVars, grVars, gpuVars>>

----------------------------------------------------------------------------
(* C_KZG_RET, src/common/ret.h *)
C_KZG_OK == "C_KZG_OK"
C_KZG_BADARGS == "C_KZG_BADARGS"
C_KZG_ERROR == "C_KZG_ERROR"
C_KZG_MALLOC == "C_KZG_MALLOC"
C_KZG_RET == {C_KZG_OK, C_KZG_BADARGS, C_KZG_ERROR, C_KZG_MALLOC}

----------------------------------------------------------------------------
(***************************************************************************)
(* The Go binding.                                                         *)
(***************************************************************************)

\* Bound on the number of API calls of one run.
MaxCalls == 4

\* errorMap: the Go error for a C status.
errorMap(ret) ==
    CASE ret = C_KZG_OK -> "nil"
      [] ret = C_KZG_BADARGS -> "ErrBadArgs"
      [] ret = C_KZG_ERROR -> "ErrError"
      [] ret = C_KZG_MALLOC -> "ErrMalloc"

makeErrorFromRet(ret) == errorMap(ret)

\* The operations that hand the global settings to the C library.
Operations ==
    {"BlobToKZGCommitment", "ComputeKZGProof", "ComputeBlobKZGProof",
     "VerifyKZGProof", "VerifyBlobKZGProof", "VerifyBlobKZGProofBatch",
     "GetSamplesAndProofs", "Get2dSamples", "SamplesToBlob", "RecoverSamples",
     "Recover2dSamples", "VerifySampleProof"}

Loads == {"LoadTrustedSetup", "LoadTrustedSetupFile"}

NoCall ==
    [op |-> "none", loadedAtEntry |-> FALSE, settingsAtEntry |-> "uninitialized",
     outcome |-> "none", cCalled |-> FALSE, ret |-> "none", err |-> "none"]

\* What a call leaves in goCall.
Called(op, outcome, cCalled, ret, err) ==
    [op |-> op, loadedAtEntry |-> loaded, settingsAtEntry |-> settings,
     outcome |-> outcome, cCalled |-> cCalled, ret |-> ret, err |-> err]

\* panic(...): the call ends before anything else happens.
Panic(op) ==
    /\ goCall' = Called(op, "panic", FALSE, "none", "none")
    /\ calls' = calls + 1
    /\ UNCHANGED <<loaded, settings, events>>
    /\ UNCHANGED <<setVars, kzgVars, metalVars, sharedVars, grVars, gpuVars>>

\* A return taken in Go, before the C library is reached.
GoReturn(op, err) ==
    /\ goCall' = Called(op, "return", FALSE, "none", err)
    /\ calls' = calls + 1
    /\ UNCHANGED <<loaded, settings, events>>
    /\ UNCHANGED <<setVars, kzgVars, metalVars, sharedVars, grVars, gpuVars>>

\* ret := C.<operation>(..., &settings); the error returned is err.
CReturn(op, ret, err) ==
    /\ goCall' = Called(op, "return", TRUE, ret, err)
    /\ calls' = calls + 1
    /\ UNCHANGED <<loaded, settings, events>>
    /\ UNCHANGED <<setVars, kzgVars, metalVars, sharedVars, grVars, gpuVars>>

\* C.load_trusted_setup / C.load_trusted_setup_file on &settings, then the flag.
LoadReturn(op, ret) ==
    /\ goCall' = Called(op, "return", TRUE, ret, makeErrorFromRet(ret))
    /\ calls' = calls + 1
    /\ IF ret = C_KZG_OK
         THEN /\ loaded' = TRUE
              /\ settings' = "loaded"
              /\ events' = Append(events, "load")
         ELSE UNCHANGED <<loaded, settings, events>>
    /\ UNCHANGED <<setVars, kzgVars, metalVars, sharedVars, grVars, gpuVars>>

LoadTrustedSetup ==
    /\ calls < MaxCalls
    /\ \E g1LenOK \in BOOLEAN, g2LenOK \in BOOLEAN, ret \in C_KZG_RET :
         IF loaded THEN Panic("LoadTrustedSetup")
         ELSE IF ~g1LenOK THEN Panic("LoadTrustedSetup")
         ELSE IF ~g2LenOK THEN Panic("LoadTrustedSetup")
         ELSE LoadReturn("LoadTrustedSetup", ret)

LoadTrustedSetupFile ==
    /\ calls < MaxCalls
    /\ \E fopenOK \in BOOLEAN, ret \in C_KZG_RET :
         IF loaded THEN Panic("LoadTrustedSetupFile")
         ELSE IF ~fopenOK THEN Panic("LoadTrustedSetupFile")
         ELSE LoadReturn("LoadTrustedSetupFile", ret)

FreeTrustedSetup_NoCheck ==
    /\ calls < MaxCalls
    /\ goCall' = Called("FreeTrustedSetup", "return", TRUE, "none", "none")
    /\ calls' = calls + 1
    /\ settings' = "freed"
    /\ events' = Append(events, "free")
    /\ loaded' = FALSE
    /\ UNCHANGED <<setVars, kzgVars, metalVars, sharedVars, grVars, gpuVars>>

FreeTrustedSetup ==
    /\ calls < MaxCalls
    /\ IF ~loaded THEN Panic("FreeTrustedSetup")
       ELSE /\ goCall' = Called("FreeTrustedSetup", "return", TRUE, "none", "none")
            /\ calls' = calls + 1
            /\ settings' = "freed"
            /\ events' = Append(events, "free")
            /\ loaded' = FALSE
            /\ UNCHANGED <<setVars, kzgVars, metalVars, sharedVars, grVars, gpuVars>>

\* An operation with no check in Go but the loaded flag.
DirectOp(op) ==
    /\ calls < MaxCalls
    /\ \E ret \in C_KZG_RET :
         IF ~loaded THEN Panic(op)
         ELSE CReturn(op, ret, makeErrorFromRet(ret))

\* An operation that validates its arguments in Go (goErr, "nil" when they pass)
\* before it calls the C library.
CheckedOp(op, goErrs) ==
    /\ calls < MaxCalls
    /\ \E goErr \in goErrs \cup {"nil"}, ret \in C_KZG_RET :
         IF ~loaded THEN Panic(op)
         ELSE IF goErr # "nil" THEN GoReturn(op, goErr)
         ELSE CReturn(op, ret, makeErrorFromRet(ret))

BlobToKZGCommitment_NoCheck ==
    /\ calls < MaxCalls
    /\ \E ret \in C_KZG_RET :
         CReturn("BlobToKZGCommitment", ret, makeErrorFromRet(ret))

BlobToKZGCommitment == DirectOp("BlobToKZGCommitment")

ComputeKZGProof == DirectOp("ComputeKZGProof")

ComputeBlobKZGProof == DirectOp("ComputeBlobKZGProof")

VerifyKZGProof == DirectOp("VerifyKZGProof")

VerifyBlobKZGProof == DirectOp("VerifyBlobKZGProof")

VerifyBlobKZGProofBatch == CheckedOp("VerifyBlobKZGProofBatch", {"ErrBadArgs"})

\* chunk(data) cannot fail here: data is made with GetDataCount() elements.
GetSamplesAndProofs == DirectOp("GetSamplesAndProofs")

\* err is assigned again by every chunk(...) of the loop, each of which gets
\* GetDataCount() elements and returns nil; the loop has 2 * GetBlobCount()
\* rounds, none when the settings' blob_count is 0.
Get2dSamples ==
    /\ calls < MaxCalls
    /\ \E lenOK \in BOOLEAN, ret \in C_KZG_RET, noBlobs \in BOOLEAN :
         IF ~loaded THEN Panic("Get2dSamples")
         ELSE IF ~lenOK THEN GoReturn("Get2dSamples", "ErrInvalidBlobCount")
         ELSE CReturn("Get2dSamples", ret,
                      IF noBlobs THEN makeErrorFromRet(ret) ELSE "nil")

SamplesToBlob ==
    CheckedOp("SamplesToBlob", {"ErrInvalidSampleCount", "ErrInvalidSampleSize"})

RecoverSamples ==
    CheckedOp("RecoverSamples", {"ErrInvalidSampleCount", "ErrInvalidSampleSize"})

Recover2dSamples ==
    CheckedOp("Recover2dSamples", {"ErrInvalidSampleCount", "ErrInvalidSampleSize"})

VerifySampleProof == CheckedOp("VerifySampleProof", {"ErrBadArgs"})

GoIdle ==
    /\ loaded = FALSE
    /\ settings = "uninitialized"
    /\ goCall = NoCall
    /\ events = <<>>
    /\ calls = 0

GoInit ==
    /\ loaded = FALSE
    /\ settings = "uninitialized"
    /\ goCall = NoCall
    /\ events = <<>>
    /\ calls = 0

GoNext ==
    \/ LoadTrustedSetup
    \/ LoadTrustedSetupFile
    \/ FreeTrustedSetup
    \/ BlobToKZGCommitment
    \/ ComputeKZGProof
    \/ ComputeBlobKZGProof
    \/ VerifyKZGProof
    \/ VerifyBlobKZGProof
    \/ VerifyBlobKZGProofBatch
    \/ GetSamplesAndProofs
    \/ Get2dSamples
    \/ SamplesToBlob
    \/ RecoverSamples
    \/ Recover2dSamples
    \/ VerifySampleProof

----------------------------------------------------------------------------
(***************************************************************************)
(* Settings: src/setup/settings.c.                                         *)
(*                                                                         *)
(* Memory is a heap of blocks. A pointer is a block id, NULL is 0. A block *)
(* keeps its data and the number of times it was passed to free. Bytes are *)
(* 0..255; UNINIT stands for a byte of malloc'ed memory never written and  *)
(* OOB for a byte read outside the buffer it was read from.                *)
(***************************************************************************)

\* Array lengths and element sizes, scaled down.
FIELD_ELEMENTS_PER_EXT_BLOB == 2
NUM_G1_POINTS == 1
NUM_G2_POINTS == 2
CELLS_PER_EXT_BLOB == 2
FIELD_ELEMENTS_PER_CELL == 1
SizeofFr == 1
SizeofG1 == 2
SizeofG2 == 3

ENDIANNESS_BIG == 1
ENDIANNESS_LITTLE == 2
FEPEB0 == FIELD_ELEMENTS_PER_EXT_BLOB + 0
FEPEB1 == FIELD_ELEMENTS_PER_EXT_BLOB + 1

\* sizeof(header_t): seven uint8_t members.
SizeofHeader == 7

NULL == 0
UNINIT == 0 - 1
OOB == 0 - 2

Platforms == [endianness : {ENDIANNESS_BIG, ENDIANNESS_LITTLE}, wordsize : {4, 8}]

get_endianness == platform.endianness

get_wordsize == platform.wordsize

\* sizeof(size_t)
SizeofSizeT == get_wordsize

\* v >> (8 * k)
RECURSIVE ShiftRight8(_, _)
ShiftRight8(v, k) == IF k = 0 THEN v ELSE ShiftRight8(v \div 256, k - 1)

\* The object representation of a size_t on this platform.
SizeTBytes(v) ==
    [i \in 1..SizeofSizeT |->
        IF get_endianness = ENDIANNESS_LITTLE
          THEN ShiftRight8(v, i - 1) % 256
          ELSE ShiftRight8(v, SizeofSizeT - i) % 256]

\* The number whose bytes are b, most significant first.
RECURSIVE BigEndianValue(_, _, _)
BigEndianValue(b, i, acc) ==
    IF i > Len(b) THEN acc ELSE BigEndianValue(b, i + 1, acc * 256 + b[i])

Reverse(b) == [i \in 1..Len(b) |-> b[Len(b) + 1 - i]]

\* The size_t whose object representation is b; an indeterminate value
\* (garbage) when b holds a byte that was never written or read out of bounds.
SizeTValue(b, garbage) ==
    IF \E i \in 1..Len(b) : b[i] < 0 THEN garbage
    ELSE IF get_endianness = ENDIANNESS_LITTLE THEN BigEndianValue(Reverse(b), 1, 0)
    ELSE BigEndianValue(b, 1, 0)

\* memcpy's source: size bytes of `bytes` starting at offset.
MemRead(bytes, offset, size) ==
    [i \in 1..size |-> IF offset + i <= Len(bytes) THEN bytes[offset + i] ELSE OOB]

\* memcpy's destination: dst with b copied to dst + offset (what falls outside
\* dst is not kept; the caller records the overflow).
MemWrite(dst, offset, b) ==
    [i \in 1..Len(dst) |->
        IF offset < i /\ i <= offset + Len(b) THEN b[i - offset] ELSE dst[i]]

\* ---- the heap (common/alloc.h) ----

Block(data) == [data |-> data, frees |-> 0]

Zeroes(n) == [i \in 1..n |-> 0]

Uninit(n) == [i \in 1..n |-> UNINIT]

\* c_kzg_free(p), a macro: free(p), nothing for NULL, and then p = NULL. This
\* is the block released; the callers below record the pointer set to NULL.
c_kzg_free(h, p) == IF p = NULL THEN h ELSE [h EXCEPT ![p].frees = @ + 1]

\* The bytes p points to (none for NULL).
Deref(h, p) == IF p = NULL THEN <<>> ELSE h[p].data

\* Reading through p is undefined: p is NULL or was freed.
BadPtr(h, p) == p = NULL \/ h[p].frees > 0

\* ---- KZGSettings ----

PtrFields ==
    <<"brp_roots_of_unity", "roots_of_unity", "reverse_roots_of_unity",
      "g1_values_monomial", "g1_values_lagrange_brp", "g2_values_monomial">>

init_settings ==
    [roots_of_unity |-> NULL, brp_roots_of_unity |-> NULL,
     reverse_roots_of_unity |-> NULL, g1_values_monomial |-> NULL,
     g1_values_lagrange_brp |-> NULL, g2_values_monomial |-> NULL,
     x_ext_fft_columns |-> NULL, tables |-> NULL,
     wbits |-> 0, scratch_size |-> 0, table_size |-> 0]

\* The size in bytes of the array a field points to.
ArrayBytes(field) ==
    CASE field = "roots_of_unity" -> FEPEB1 * SizeofFr
      [] field = "brp_roots_of_unity" -> FEPEB0 * SizeofFr
      [] field = "reverse_roots_of_unity" -> FEPEB1 * SizeofFr
      [] field = "g1_values_monomial" -> NUM_G1_POINTS * SizeofG1
      [] field = "g1_values_lagrange_brp" -> NUM_G1_POINTS * SizeofG1
      [] field = "g2_values_monomial" -> NUM_G2_POINTS * SizeofG2

ColumnBytes == FIELD_ELEMENTS_PER_CELL * SizeofG1

\* Test data: the bytes of array k of the settings numbered seed.
Fill(seed, k, n) == [i \in 1..n |-> (seed * 101 + k * 16 + i) % 256]

\* A loaded KZGSettings as the trusted-setup loader leaves it, in a fresh heap:
\* every array allocated; withTables tells whether the tables array exists
\* (its rows, of table_size bytes each, when wbits # 0).
LoadedHeap(seed, wbits, table_size, withTables) ==
    LET C == CELLS_PER_EXT_BLOB
        fixed == [k \in 1..6 |-> Block(Fill(seed, k, ArrayBytes(PtrFields[k])))]
        cols == <<Block([i \in 1..C |-> 7 + i])>>
        colRows == [i \in 1..C |-> Block(Fill(seed, 6 + i, ColumnBytes))]
        tabs == IF wbits # 0 /\ withTables
                  THEN <<Block([i \in 1..C |-> 8 + C + i])>>
                ELSE IF withTables THEN <<Block(Zeroes(C))>> ELSE <<>>
        tabRows == IF wbits # 0 /\ withTables
                     THEN [i \in 1..C |-> Block(Fill(seed, 6 + C + i, table_size))]
                     ELSE <<>>
    IN fixed \o cols \o colRows \o tabs \o tabRows

LoadedSettings(wbits, scratch_size, table_size, withTables) ==
    [brp_roots_of_unity |-> 1, roots_of_unity |-> 2,
     reverse_roots_of_unity |-> 3, g1_values_monomial |-> 4,
     g1_values_lagrange_brp |-> 5, g2_values_monomial |-> 6,
     x_ext_fft_columns |-> 7,
     tables |-> IF withTables THEN 8 + CELLS_PER_EXT_BLOB ELSE NULL,
     wbits |-> wbits, scratch_size |-> scratch_size, table_size |-> table_size]

\* ---- free_settings ----

\* The rows loop: c_kzg_free(arr[i]) for i = from .. CELLS_PER_EXT_BLOB.
\* st = [heap, trace, ub]; the trace lists every read of a pointer array and
\* every non-NULL pointer freed, in program order. Each arr[i] is left NULL.
RECURSIVE FreeRows(_, _, _)
FreeRows(st, arr, i) ==
    IF i > CELLS_PER_EXT_BLOB THEN st
    ELSE LET row == st.heap[arr].data[i]
         IN FreeRows(
              [heap |-> [c_kzg_free(st.heap, row) EXCEPT ![arr].data[i] = NULL],
               trace |-> st.trace \o <<<<"read", arr>>>>
                           \o (IF row = NULL THEN <<>> ELSE <<<<"free", row>>>>),
               ub |-> st.ub \/ BadPtr(st.heap, arr)
                            \/ (row # NULL /\ st.heap[row].frees > 0)],
              arr, i + 1)

\* c_kzg_free(p) as a step of free_settings.
FreeStep(st, p) ==
    [heap |-> c_kzg_free(st.heap, p),
     trace |-> st.trace \o (IF p = NULL THEN <<>> ELSE <<<<"free", p>>>>),
     ub |-> st.ub \/ (p # NULL /\ st.heap[p].frees > 0)]

RECURSIVE FreeFields(_, _, _)
FreeFields(st, s, k) ==
    IF k > Len(PtrFields) THEN st
    ELSE FreeFields(FreeStep(st, s[PtrFields[k]]), s, k + 1)

\* The settings once c_kzg_free has set each of its eight pointers to NULL.
PointersCleared(s) ==
    [f \in DOMAIN s |->
        IF f \in {"wbits", "scratch_size", "table_size"} THEN s[f] ELSE NULL]

free_settings_OuterFirst(s, h) ==
    LET st0 == [heap |-> h, trace |-> <<>>, ub |-> FALSE]
        st1 == FreeFields(st0, s, 1)
        st2 == FreeStep(st1, s.x_ext_fft_columns)
        st3 == FreeStep(st2, s.tables)
        st4 == IF s.x_ext_fft_columns # NULL
                 THEN FreeRows(st3, s.x_ext_fft_columns, 1) ELSE st3
        st5 == IF s.tables # NULL THEN FreeRows(st4, s.tables, 1) ELSE st4
    IN [s |-> [PointersCleared(s) EXCEPT
                 !.wbits = 0, !.scratch_size = 0, !.table_size = 0],
        heap |-> st5.heap, trace |-> st5.trace, ub |-> st5.ub]

\* free_settings(s) for s # NULL: the settings, the heap, the trace of the call
\* and whether it ran into undefined behaviour.
free_settings(s, h) ==
    LET st0 == [heap |-> h, trace |-> <<>>, ub |-> FALSE]
        st1 == FreeFields(st0, s, 1)
        st2 == IF s.x_ext_fft_columns # NULL
                 THEN FreeRows(st1, s.x_ext_fft_columns, 1) ELSE st1
        st3 == IF s.tables # NULL THEN FreeRows(st2, s.tables, 1) ELSE st2
        st4 == FreeStep(st3, s.x_ext_fft_columns)
        st5 == FreeStep(st4, s.tables)
    IN [s |-> [PointersCleared(s) EXCEPT
                 !.wbits = 0, !.scratch_size = 0, !.table_size = 0],
        heap |-> st5.heap, trace |-> st5.trace, ub |-> st5.ub]

\* ---- serialize_settings ----

compute_serialized_size(s) ==
    SizeofHeader
    + SizeofSizeT + SizeofSizeT + SizeofSizeT
    + FEPEB1 * SizeofFr
    + FEPEB0 * SizeofFr
    + FEPEB1 * SizeofFr
    + NUM_G1_POINTS * SizeofG1
    + NUM_G1_POINTS * SizeofG1
    + NUM_G2_POINTS * SizeofG2
    + CELLS_PER_EXT_BLOB * FIELD_ELEMENTS_PER_CELL * SizeofG1
    + (IF s.wbits # 0 /\ s.tables # NULL
         THEN CELLS_PER_EXT_BLOB * s.table_size ELSE 0)

\* header_t of this platform: magic 'K','Z','G','\0', version 1.
HeaderBytes == <<75, 90, 71, 0, 1, get_endianness, get_wordsize>>

\* WRITE(dst, offset, src, size) with st = [b, offset, ub]; bad tells that src
\* must not be read (NULL or freed).
WRITE(st, srcBytes, size, bad) ==
    [b |-> MemWrite(st.b, st.offset, MemRead(srcBytes, 0, size)),
     offset |-> st.offset + size,
     ub |-> st.ub \/ (size > 0 /\ bad) \/ size > Len(srcBytes)
                  \/ st.offset + size > Len(st.b)]

WriteArray(st, h, p, size) == WRITE(st, Deref(h, p), size, BadPtr(h, p))

\* for (i = from; i < CELLS_PER_EXT_BLOB; i++) WRITE(*out, offset, arr[i], size)
RECURSIVE WriteRows(_, _, _, _, _)
WriteRows(st, h, arr, size, i) ==
    IF i > CELLS_PER_EXT_BLOB THEN st
    ELSE LET bad == BadPtr(h, arr)
             row == IF arr = NULL THEN NULL ELSE h[arr].data[i]
             w == WriteArray(st, h, row, size)
         IN WriteRows([w EXCEPT !.ub = @ \/ bad], h, arr, size, i + 1)

\* The order in which serialize_settings writes the six flat arrays.
WriteOrder_BrpFirst ==
    <<"brp_roots_of_unity", "roots_of_unity", "reverse_roots_of_unity",
      "g1_values_monomial", "g1_values_lagrange_brp", "g2_values_monomial">>

WriteOrder ==
    <<"roots_of_unity", "brp_roots_of_unity", "reverse_roots_of_unity",
      "g1_values_monomial", "g1_values_lagrange_brp", "g2_values_monomial">>

\* The WRITEs of serialize_settings with the tables written whenever
\* wbits # 0, whether or not there is a tables array.
WriteStep_TablesUnchecked(st, s, h, k) ==
    CASE k = 1 -> WRITE(st, HeaderBytes, SizeofHeader, FALSE)
      [] k = 2 -> WRITE(st, SizeTBytes(s.wbits), SizeofSizeT, FALSE)
      [] k = 3 -> WRITE(st, SizeTBytes(s.scratch_size), SizeofSizeT, FALSE)
      [] k = 4 -> WRITE(st, SizeTBytes(s.table_size), SizeofSizeT, FALSE)
      [] k \in 5..10 ->
           WriteArray(st, h, s[WriteOrder[k - 4]], ArrayBytes(WriteOrder[k - 4]))
      [] k = 11 -> WriteRows(st, h, s.x_ext_fft_columns, ColumnBytes, 1)
      [] k = 12 -> IF s.wbits # 0
                     THEN WriteRows(st, h, s.tables, s.table_size, 1) ELSE st

\* The k-th WRITE of serialize_settings (the two loops count as one each).
WriteStep(st, s, h, k) ==
    CASE k = 1 -> WRITE(st, HeaderBytes, SizeofHeader, FALSE)
      [] k = 2 -> WRITE(st, SizeTBytes(s.wbits), SizeofSizeT, FALSE)
      [] k = 3 -> WRITE(st, SizeTBytes(s.scratch_size), SizeofSizeT, FALSE)
      [] k = 4 -> WRITE(st, SizeTBytes(s.table_size), SizeofSizeT, FALSE)
      [] k \in 5..10 ->
           WriteArray(st, h, s[WriteOrder[k - 4]], ArrayBytes(WriteOrder[k - 4]))
      [] k = 11 -> WriteRows(st, h, s.x_ext_fft_columns, ColumnBytes, 1)
      [] k = 12 -> IF s.wbits # 0 /\ s.tables # NULL
                     THEN WriteRows(st, h, s.tables, s.table_size, 1) ELSE st

RECURSIVE WriteSteps(_, _, _, _)
WriteSteps(st, s, h, k) ==
    IF k > 12 THEN st ELSE WriteSteps(WriteStep(st, s, h, k), s, h, k + 1)

\* serialize_settings(out, out_len, s); allocOK: c_kzg_malloc succeeds.
\* Result: ret, the bytes of *out (<<>> when nothing was allocated), *out_len,
\* total_size, the final offset and whether a copy was undefined.
serialize_settings(s, h, allocOK) ==
    LET total_size == compute_serialized_size(s)
        w == WriteSteps([b |-> Uninit(total_size), offset |-> 0, ub |-> FALSE],
                        s, h, 1)
    IN IF ~allocOK
         THEN [ret |-> C_KZG_MALLOC, bytes |-> <<>>, out_len |-> 0,
               total_size |-> total_size, offset |-> 0, ub |-> FALSE]
         ELSE [ret |-> C_KZG_OK, bytes |-> w.b, out_len |-> total_size,
               total_size |-> total_size, offset |-> w.offset, ub |-> w.ub]

\* ---- deserialize_settings ----
\* The running state st = [out, heap, offset, ret, ub, nalloc]; ret is "none"
\* until a step fails. failAt is the number of the allocation that fails (0: none).

\* memcpy(&out->field, data + offset, sizeof(size_t)); offset += sizeof(size_t)
ReadSizeT(st, data, field, garbage) ==
    IF st.ret # "none" THEN st
    ELSE [st EXCEPT
            !.out[field] = SizeTValue(MemRead(data, st.offset, SizeofSizeT), garbage),
            !.offset = @ + SizeofSizeT,
            !.ub = @ \/ st.offset + SizeofSizeT > Len(data)]

\* The status of an allocation of size bytes: BADARGS for size 0.
AllocRet(st, size, failAt) ==
    IF size = 0 THEN C_KZG_BADARGS
    ELSE IF st.nalloc + 1 = failAt THEN C_KZG_MALLOC
    ELSE C_KZG_OK

\* ret = new_*_array(&out->field, n); memcpy(out->field, data + offset, size);
\* offset += size
ReadArray(st, data, field, failAt) ==
    LET size == ArrayBytes(field)
        r == IF st.ret # "none" THEN st.ret ELSE AllocRet(st, size, failAt)
    IN IF st.ret # "none" THEN st
       ELSE IF r # C_KZG_OK THEN [st EXCEPT !.ret = r, !.nalloc = @ + 1]
       ELSE [st EXCEPT
               !.heap = Append(@, Block(MemRead(data, st.offset, size))),
               !.out[field] = Len(st.heap) + 1,
               !.offset = @ + size,
               !.nalloc = @ + 1,
               !.ub = @ \/ st.offset + size > Len(data)]

\* ret = c_kzg_calloc(&out->field, CELLS_PER_EXT_BLOB, sizeof(pointer))
AllocOuter(st, field, failAt) ==
    IF st.ret # "none" THEN st
    ELSE IF st.nalloc + 1 = failAt
      THEN [st EXCEPT !.ret = C_KZG_MALLOC, !.nalloc = @ + 1]
    ELSE [st EXCEPT
            !.heap = Append(@, Block(Zeroes(CELLS_PER_EXT_BLOB))),
            !.out[field] = Len(st.heap) + 1,
            !.nalloc = @ + 1]

\* for each i: allocate out->field[i] (size bytes), memcpy, offset += size
RECURSIVE ReadRows(_, _, _, _, _, _)
ReadRows(st, data, field, size, failAt, i) ==
    IF st.ret # "none" \/ i > CELLS_PER_EXT_BLOB THEN st
    ELSE LET r == AllocRet(st, size, failAt)
             id == Len(st.heap) + 1
             next ==
               IF r # C_KZG_OK THEN [st EXCEPT !.ret = r, !.nalloc = @ + 1]
               ELSE [st EXCEPT
                       !.heap = Append([@ EXCEPT ![st.out[field]].data[i] = id],
                                       Block(MemRead(data, st.offset, size))),
                       !.offset = @ + size,
                       !.nalloc = @ + 1,
                       !.ub = @ \/ st.offset + size > Len(data)]
         IN ReadRows(next, data, field, size, failAt, i + 1)

\* The header's verdict: "none" when the data is compatible.
CheckHeader_NoWordsize(header) ==
    IF SubSeq(header, 1, 4) # <<75, 90, 71, 0>> THEN C_KZG_BADARGS
    ELSE IF header[5] # 1 THEN C_KZG_BADARGS
    ELSE IF header[6] # get_endianness THEN C_KZG_BADARGS
    ELSE "none"

CheckHeader(header) ==
    IF SubSeq(header, 1, 4) # <<75, 90, 71, 0>> THEN C_KZG_BADARGS
    ELSE IF header[5] # 1 THEN C_KZG_BADARGS
    ELSE IF header[6] # get_endianness THEN C_KZG_BADARGS
    ELSE IF header[7] # get_wordsize THEN C_KZG_BADARGS
    ELSE "none"

\* The order in which deserialize_settings reads the six flat arrays.
ReadOrder ==
    <<"roots_of_unity", "brp_roots_of_unity", "reverse_roots_of_unity",
      "g1_values_monomial", "g1_values_lagrange_brp", "g2_values_monomial">>

\* The k-th step of deserialize_settings after the header.
ReadStep(st, data, garbage, failAt, k) ==
    CASE k = 1 -> ReadSizeT(st, data, "wbits", garbage.wbits)
      [] k = 2 -> ReadSizeT(st, data, "scratch_size", garbage.scratch_size)
      [] k = 3 -> ReadSizeT(st, data, "table_size", garbage.table_size)
      [] k \in 4..9 -> ReadArray(st, data, ReadOrder[k - 3], failAt)
      [] k = 10 -> AllocOuter(st, "x_ext_fft_columns", failAt)
      [] k = 11 -> ReadRows(st, data, "x_ext_fft_columns", ColumnBytes, failAt, 1)
      [] k = 12 -> IF st.out.wbits # 0 THEN AllocOuter(st, "tables", failAt) ELSE st
      [] k = 13 -> IF st.out.wbits # 0
                     THEN ReadRows(st, data, "tables", st.out.table_size, failAt, 1)
                     ELSE st

RECURSIVE ReadBody(_, _, _, _, _)
ReadBody(st, data, garbage, failAt, k) ==
    IF k > 13 THEN st
    ELSE ReadBody(ReadStep(st, data, garbage, failAt, k), data, garbage, failAt, k + 1)

\* A return before anything is read into *out: only init_settings(out) has run.
EarlyReturn(ret, h, offset) ==
    [ret |-> ret, out |-> init_settings, heap |-> h, offset |-> offset,
     nalloc |-> 0, ub |-> FALSE, trace |-> <<>>]

\* deserialize_settings whose out_error label returns without free_settings.
deserialize_settings_NoCleanup(data, h, garbage, failAt) ==
    LET st0 == [out |-> init_settings, heap |-> h, offset |-> SizeofHeader,
                ret |-> "none", ub |-> FALSE, nalloc |-> 0]
        hdr == CheckHeader(MemRead(data, 0, SizeofHeader))
        st == ReadBody(st0, data, garbage, failAt, 1)
    IN IF Len(data) < SizeofHeader
         THEN EarlyReturn(C_KZG_ERROR, h, 0)
       ELSE IF hdr # "none"
         THEN EarlyReturn(hdr, h, SizeofHeader)
       ELSE [ret |-> IF st.ret = "none" THEN C_KZG_OK ELSE st.ret,
             out |-> st.out, heap |-> st.heap, offset |-> st.offset,
             nalloc |-> st.nalloc, ub |-> st.ub, trace |-> <<>>]

\* deserialize_settings(out, data, data_len) with data_len = Len(data).
\* Result: ret, *out, the heap, the final offset, the allocations attempted,
\* whether a read was undefined, and the trace of the cleanup (out_error).
deserialize_settings(data, h, garbage, failAt) ==
    LET st0 == [out |-> init_settings, heap |-> h, offset |-> SizeofHeader,
                ret |-> "none", ub |-> FALSE, nalloc |-> 0]
        hdr == CheckHeader(MemRead(data, 0, SizeofHeader))
        st == ReadBody(st0, data, garbage, failAt, 1)
        fr == free_settings(st.out, st.heap)
    IN IF Len(data) < SizeofHeader
         THEN EarlyReturn(C_KZG_ERROR, h, 0)
       ELSE IF hdr # "none"
         THEN EarlyReturn(hdr, h, SizeofHeader)
       ELSE IF st.ret = "none"
         THEN [ret |-> C_KZG_OK, out |-> st.out, heap |-> st.heap,
               offset |-> st.offset, nalloc |-> st.nalloc, ub |-> st.ub,
               trace |-> <<>>]
       ELSE [ret |-> st.ret, out |-> fr.s, heap |-> fr.heap,
             offset |-> st.offset, nalloc |-> st.nalloc, ub |-> st.ub \/ fr.ub,
             trace |-> fr.trace]

\* ---- the routines as steps of a program ----

\* Bounds of the runs explored.
MaxSeed == 0
MaxTableSize == 2
MaxFree == 1

\* The settings the runs start from: without precomputation (wbits = 0, with
\* or without the empty tables array), with it (wbits = 8), and with wbits = 8
\* but no tables array.
Configs ==
    {[wbits |-> 0, scratch_size |-> 0, table_size |-> 0, withTables |-> w] :
        w \in BOOLEAN}
    \cup {[wbits |-> 8, scratch_size |-> 300, table_size |-> 1, withTables |-> FALSE]}
    \cup {[wbits |-> 8, scratch_size |-> 300, table_size |-> t, withTables |-> TRUE] :
        t \in 1..MaxTableSize}

\* The blocks a settings value points to.
Rows(h, arr) ==
    IF arr = NULL THEN {}
    ELSE {h[arr].data[i] : i \in 1..CELLS_PER_EXT_BLOB} \ {NULL}

Owned(s, h) ==
    ({s[PtrFields[k]] : k \in 1..Len(PtrFields)}
       \cup {s.x_ext_fft_columns, s.tables}
       \cup Rows(h, s.x_ext_fft_columns) \cup Rows(h, s.tables)) \ {NULL}

\* s is a loaded settings value: every array is there and none was freed.
IsLoaded(s, h) ==
    /\ \A k \in 1..Len(PtrFields) : s[PtrFields[k]] # NULL
    /\ s.x_ext_fft_columns # NULL
    /\ Cardinality(Rows(h, s.x_ext_fft_columns)) = CELLS_PER_EXT_BLOB
    /\ s.wbits # 0 =>
         s.tables # NULL /\ Cardinality(Rows(h, s.tables)) = CELLS_PER_EXT_BLOB
    /\ \A p \in Owned(s, h) : h[p].frees = 0

\* The number of allocations of a complete deserialize_settings.
NumAllocs == 6 + 1 + CELLS_PER_EXT_BLOB + 1 + CELLS_PER_EXT_BLOB

\* The inputs handed to deserialize_settings: the serialized bytes as they are,
\* with one header byte changed, or cut short.
Variants(bytes) ==
    {<<"intact", 0>>}
    \cup {<<"flip", i>> : i \in 1..SizeofHeader}
    \cup {<<"truncate", k>> :
            k \in {0, 3, 6, SizeofHeader, SizeofHeader + SizeofSizeT, Len(bytes) - 1}}

DataOf(v, bytes) ==
    CASE v[1] = "intact" -> bytes
      [] v[1] = "flip" -> [bytes EXCEPT ![v[2]] = (@ + 1) % 256]
      [] v[1] = "truncate" -> SubSeq(bytes, 1, v[2])

\* The allocation that may fail (0: none). Data that is returned on before the
\* first allocation is tried with none failing only.
FailPoints(v) ==
    IF v[1] = "flip" \/ (v[1] = "truncate" /\ v[2] < SizeofHeader)
      THEN {0} ELSE 0..NumAllocs

\* The values an indeterminate size_t may take: one for each field that the
\* data does not hold in full.
Garbage(data) ==
    [wbits : IF Len(data) >= SizeofHeader + SizeofSizeT THEN {0} ELSE {0, 8},
     scratch_size : {0},
     table_size : IF Len(data) >= SizeofHeader + 3 * SizeofSizeT THEN {0} ELSE {0, 1}]

\* The program is still running: no undefined behaviour, no failed assert.
Running == ~ub /\ (lastOp.op = "serialize" => lastOp.assertOK)

SerializeSettings ==
    /\ Running
    /\ buf = NULL
    /\ ~desDone
    /\ \E allocOK \in BOOLEAN :
         \E r \in {serialize_settings(src, heap, allocOK)} :
            /\ lastOp' = [op |-> "serialize", ret |-> r.ret,
                          total_size |-> r.total_size, offset |-> r.offset,
                          assertOK |-> (r.ret = C_KZG_OK => r.total_size = r.offset),
                          srcLoaded |-> IsLoaded(src, heap)]
            /\ out_len' = r.out_len
            /\ ub' = r.ub
            /\ IF r.ret = C_KZG_OK
                 THEN heap' = Append(heap, Block(r.bytes)) /\ buf' = Len(heap) + 1
                 ELSE UNCHANGED <<heap, buf>>
    /\ UNCHANGED <<platform, src, out, nFree, desDone>>
    /\ UNCHANGED <<goVars, kzgVars, metalVars, sharedVars, grVars, gpuVars>>

DeserializeSettings ==
    /\ Running
    /\ buf # NULL
    /\ ~desDone
    /\ \E v \in Variants(heap[buf].data) : \E failAt \in FailPoints(v) :
         LET data == DataOf(v, heap[buf].data)
         IN \E garbage \in Garbage(data) :
              \E r \in {deserialize_settings(data, heap, garbage, failAt)} :
                 /\ lastOp' = [op |-> "deserialize", ret |-> r.ret, variant |-> v,
                               failAt |-> failAt, data_len |-> Len(data),
                               offset |-> r.offset, nalloc |-> r.nalloc,
                               trace |-> r.trace, heapBefore |-> Len(heap),
                               srcLoaded |-> IsLoaded(src, heap)]
                 /\ out' = r.out
                 /\ heap' = r.heap
                 /\ ub' = r.ub
    /\ desDone' = TRUE
    /\ UNCHANGED <<platform, src, buf, out_len, nFree>>
    /\ UNCHANGED <<goVars, kzgVars, metalVars, sharedVars, grVars, gpuVars>>

\* free_settings(NULL), free_settings(&src) or free_settings(&out).
FreeSettings ==
    /\ Running
    /\ nFree < MaxFree
    /\ nFree' = nFree + 1
    /\ \E target \in {"NULL", "src", "out"} :
         \E s \in {IF target = "src" THEN src ELSE out} :
         \E r \in {free_settings(s, heap)} :
            IF target = "NULL"
              THEN /\ lastOp' = [op |-> "free", target |-> target, trace |-> <<>>,
                                 before |-> init_settings, wasLoaded |-> FALSE,
                                 owned |-> {}]
                   /\ UNCHANGED <<heap, src, out, ub>>
              ELSE /\ lastOp' = [op |-> "free", target |-> target, trace |-> r.trace,
                                 before |-> s, wasLoaded |-> IsLoaded(s, heap),
                                 owned |-> Owned(s, heap)]
                   /\ heap' = r.heap
                   /\ ub' = r.ub
                   /\ IF target = "src" THEN src' = r.s /\ out' = out
                      ELSE out' = r.s /\ src' = src
    /\ UNCHANGED <<platform, buf, out_len, desDone>>
    /\ UNCHANGED <<goVars, kzgVars, metalVars, sharedVars, grVars, gpuVars>>

\* init_settings(&out) on settings that hold something.
InitSettings ==
    /\ Running
    /\ out # init_settings
    /\ out' = init_settings
    /\ lastOp' = [op |-> "init"]
    /\ UNCHANGED <<platform, heap, src, buf, out_len, ub, nFree, desDone>>
    /\ UNCHANGED <<goVars, kzgVars, metalVars, sharedVars, grVars, gpuVars>>

SetIdle ==
    /\ platform = [endianness |-> ENDIANNESS_LITTLE, wordsize |-> 8]
    /\ heap = <<>>
    /\ src = init_settings
    /\ out = init_settings
    /\ buf = NULL
    /\ out_len = 0
    /\ ub = FALSE
    /\ lastOp = [op |-> "none"]
    /\ nFree = 0
    /\ desDone = FALSE

SetInit ==
    /\ platform \in Platforms
    /\ \E seed \in 0..MaxSeed, c \in Configs :
         /\ heap = LoadedHeap(seed, c.wbits, c.table_size, c.withTables)
         /\ src = LoadedSettings(c.wbits, c.scratch_size, c.table_size, c.withTables)
    /\ out = init_settings
    /\ buf = NULL
    /\ out_len = 0
    /\ ub = FALSE
    /\ lastOp = [op |-> "none"]
    /\ nFree = 0
    /\ desDone = FALSE

SetNext ==
    \/ SerializeSettings
    \/ DeserializeSettings
    \/ FreeSettings
    \/ InitSettings

----------------------------------------------------------------------------
(***************************************************************************)
(* The KZG operations the binding calls.  Their C code is not part of the  *)
(* sources at hand; they are modelled from the specification's sections    *)
(* 3 and 4, over a small field and a pairing group written in the exponent *)
(* (a group element [a]G is the scalar a, e([a]G1, [b]G2) is a * b).       *)
(***************************************************************************)

\* Bounds: log2 of the field elements of a blob and of a cell (sample).
LogFieldElementsPerBlob == 3
LogFieldElementsPerCell == 1

\* The scalar field: the residues of a prime r with r - 1 = 2^6 * 3.
BLS_MODULUS == 193

\* log2 of the order of the field's 2-adic subgroup, and its generator.
LogMaxOrder == 6
TwoAdicGenerator == 125

FieldElementsPerBlob == 2 ^ LogFieldElementsPerBlob
LogFieldElementsPerExtBlob == LogFieldElementsPerBlob + 1
FieldElementsPerExtBlob == 2 * FieldElementsPerBlob
FieldElementsPerCell == 2 ^ LogFieldElementsPerCell
LogCellsPerExtBlob == LogFieldElementsPerExtBlob - LogFieldElementsPerCell
CellsPerExtBlob == 2 ^ LogCellsPerExtBlob

Fr == 0..(BLS_MODULUS - 1)

fr_add(a, b) == (a + b) % BLS_MODULUS
fr_sub(a, b) == (a - b + BLS_MODULUS) % BLS_MODULUS
fr_mul(a, b) == (a * b) % BLS_MODULUS

RECURSIVE fr_pow(_, _)
fr_pow(a, n) ==
    IF n = 0 THEN 1
    ELSE LET h == fr_pow(fr_mul(a, a), n \div 2)
         IN IF n % 2 = 0 THEN h ELSE fr_mul(a, h)

\* The inverse (of 0: 0).
fr_inv(a) == fr_pow(a, BLS_MODULUS - 2)

fr_div(a, b) == fr_mul(a, fr_inv(b))

\* The function f as a table of its values.
Tabulate(f) == f @@ <<>>

\* y, with x evaluated before it: TLC evaluates a tuple's components in order,
\* which keeps the evaluation of an array that is built from x from nesting
\* inside the one of x.
After(x, y) == <<x, y>>[2]

\* The sum of f[lo] .. f[hi - 1], by halves.
RECURSIVE fr_sum_range(_, _, _)
fr_sum_range(f, lo, hi) ==
    IF hi <= lo THEN 0
    ELSE IF hi = lo + 1 THEN f[lo]
    ELSE LET mid == (lo + hi) \div 2
         IN fr_add(fr_sum_range(f, lo, mid), fr_sum_range(f, mid, hi))

\* The sum of f[0] .. f[n - 1].
fr_sum(f, n) == fr_sum_range(f, 0, n)

\* ---- 4.A domain and roots ----

\* A primitive 2^logn-th root of unity.
primitive_root(logn) == fr_pow(TwoAdicGenerator, 2 ^ (LogMaxOrder - logn))

\* w^0 .. w^n for n = 2^logn (the last wraps to 1).
compute_roots_of_unity(logn) ==
    Tabulate([i \in 0..(2 ^ logn) |-> fr_pow(primitive_root(logn), i)])

\* The integer whose `bits` bits are those of i in reverse order.
RECURSIVE reverse_bits(_, _)
reverse_bits(i, bits) ==
    IF bits = 0 THEN 0
    ELSE (i % 2) * 2 ^ (bits - 1) + reverse_bits(i \div 2, bits - 1)

bit_reversal_permutation(v, logn) ==
    After(v, Tabulate([i \in 0..(2 ^ logn - 1) |-> v[reverse_bits(i, logn)]]))

\* ---- 4.B NTT engine (on Fr; on G1 it is the same map of the exponents) ----

\* The transform of v (length 2^logn, natural order) with the roots table
\* `roots` of the extended domain, read with the stride of the smaller domain.
fft(v, roots, logn) ==
    LET n == 2 ^ logn
        stride == FieldElementsPerExtBlob \div n
        in == Tabulate(v)
    IN After(in, Tabulate(
         [k \in 0..(n - 1) |->
            fr_sum([j \in 0..(n - 1) |->
                      fr_mul(in[j], roots[(stride * j * k) % FieldElementsPerExtBlob])], n)]))

fr_fft(s, v, logn) == fft(v, s.roots_of_unity, logn)

fr_ifft(s, v, logn) ==
    LET w == fft(v, s.reverse_roots_of_unity, logn)
        inv_n == fr_inv((2 ^ logn) % BLS_MODULUS)
    IN After(w, Tabulate([k \in 0..(2 ^ logn - 1) |-> fr_mul(w[k], inv_n)]))

\* ---- the group, in the exponent ----

g1_add(a, b) == fr_add(a, b)
g1_sub(a, b) == fr_sub(a, b)
g1_mul(a, scalar) == fr_mul(a, scalar)
G1_GENERATOR == 1
G2_GENERATOR == 1

\* sum of scalars[i] * points[i], i < n
g1_lincomb(points, scalars, n) ==
    fr_sum([i \in 0..(n - 1) |-> g1_mul(points[i], scalars[i])], n)

\* e(a1, a2) = e(b1, b2)
pairings_verify(a1, a2, b1, b2) == fr_mul(a1, a2) = fr_mul(b1, b2)

\* ---- 4.E setup construction ----

\* The settings built from the setup [tau^i]G1, [tau^i]G2.
TrustedSetup(tau) ==
    LET E == FieldElementsPerExtBlob
        N == FieldElementsPerBlob
        roots == compute_roots_of_unity(LogFieldElementsPerExtBlob)
        s0 == [roots_of_unity |-> roots,
               brp_roots_of_unity |->
                   bit_reversal_permutation(roots, LogFieldElementsPerExtBlob),
               reverse_roots_of_unity |-> Tabulate([i \in 0..E |-> roots[E - i]]),
               g1_values_monomial |->
                   Tabulate([i \in 0..(N - 1) |-> fr_pow(tau, i)]),
               g2_values_monomial |->
                   Tabulate([i \in 0..FieldElementsPerCell |-> fr_pow(tau, i)])]
        lagrange == fr_ifft(s0, s0.g1_values_monomial, LogFieldElementsPerBlob)
    IN After(<<s0, lagrange>>,
       [roots_of_unity |-> s0.roots_of_unity,
        brp_roots_of_unity |-> s0.brp_roots_of_unity,
        reverse_roots_of_unity |-> s0.reverse_roots_of_unity,
        g1_values_monomial |-> s0.g1_values_monomial,
        g1_values_lagrange_brp |->
            bit_reversal_permutation(lagrange, LogFieldElementsPerBlob),
        g2_values_monomial |-> s0.g2_values_monomial])

\* ---- bytes ----

\* A Bytes32 or Bytes48 value is modelled by one byte, a Blob by
\* FieldElementsPerBlob of them.
Bytes == 0..255

\* bytes_to_bls_field: the bytes must be a canonical field element.
bytes_to_bls_field(b) ==
    IF b < BLS_MODULUS THEN [ret |-> C_KZG_OK, fr |-> b]
    ELSE [ret |-> C_KZG_BADARGS, fr |-> 0]

\* bytes_to_kzg_commitment / bytes_to_kzg_proof: the bytes must be a point.
bytes_to_g1(b) ==
    IF b < BLS_MODULUS THEN [ret |-> C_KZG_OK, g1 |-> b]
    ELSE [ret |-> C_KZG_BADARGS, g1 |-> 0]

bytes_from_bls_field(a) == a
bytes_from_g1(p) == p

\* ---- 4.C polynomial operations ----

\* The blob's evaluations, or bad-args for a non-canonical element.
blob_to_polynomial(blob) ==
    IF \E i \in 1..Len(blob) : bytes_to_bls_field(blob[i]).ret # C_KZG_OK
      THEN [ret |-> C_KZG_BADARGS, poly |-> <<>>]
      ELSE [ret |-> C_KZG_OK,
            poly |-> Tabulate([i \in 0..(FieldElementsPerBlob - 1) |->
                                 bytes_to_bls_field(blob[i + 1]).fr])]

\* BRP-Lagrange values to monomial coefficients.
poly_lagrange_to_monomial(s, poly) ==
    fr_ifft(s, bit_reversal_permutation(poly, LogFieldElementsPerBlob),
            LogFieldElementsPerBlob)

\* The indices of the domain roots equal to z.
DomainIndex(s, z) ==
    {i \in 0..(FieldElementsPerBlob - 1) : s.brp_roots_of_unity[i] = z}

evaluate_polynomial_in_evaluation_form(s, poly, z) ==
    LET N == FieldElementsPerBlob
        w == s.brp_roots_of_unity
    IN IF DomainIndex(s, z) # {}
         THEN poly[CHOOSE i \in DomainIndex(s, z) : TRUE]
         ELSE fr_mul(fr_div(fr_sub(fr_pow(z, N), 1), N % BLS_MODULUS),
                     fr_sum([i \in 0..(N - 1) |->
                               fr_div(fr_mul(poly[i], w[i]), fr_sub(z, w[i]))], N))

\* q = (p - y) / (X - z) in evaluation form; at a domain root z = w[m] the
\* value q[m] comes from the other points.
compute_quotient(s, poly, z, y) ==
    LET N == FieldElementsPerBlob
        w == s.brp_roots_of_unity
    IN Tabulate(
         [i \in 0..(N - 1) |->
            IF w[i] # z
              THEN fr_div(fr_sub(poly[i], y), fr_sub(w[i], z))
              ELSE fr_sum([j \in 0..(N - 1) |->
                             IF j = i THEN 0
                             ELSE fr_div(fr_mul(fr_sub(poly[j], y), w[j]),
                                         fr_mul(z, fr_sub(z, w[j])))], N)])

\* ---- 4.H transcript ----

\* The hash of a byte string, reduced to a field element.
RECURSIVE hash_to_bls_field(_, _)
hash_to_bls_field(bytes, acc) ==
    IF bytes = <<>> THEN acc
    ELSE hash_to_bls_field(Tail(bytes), (acc * 31 + Head(bytes) + 7) % BLS_MODULUS)

\* z = H(tag, degree, blob, commitment)
compute_challenge(blob, commitment) ==
    hash_to_bls_field(<<FieldElementsPerBlob>> \o blob \o <<commitment>>, 1)

\* ---- 4.F EIP-4844 operations ----

blob_to_kzg_commitment(s, blob) ==
    LET p == blob_to_polynomial(blob)
    IN IF p.ret # C_KZG_OK THEN [ret |-> p.ret, commitment |-> 0]
       ELSE [ret |-> C_KZG_OK,
             commitment |-> bytes_from_g1(
                 g1_lincomb(s.g1_values_lagrange_brp, p.poly, FieldElementsPerBlob))]

\* The proof and the value at z of a polynomial in evaluation form.
compute_kzg_proof_impl(s, poly, z) ==
    LET y == evaluate_polynomial_in_evaluation_form(s, poly, z)
        q == compute_quotient(s, poly, z, y)
        coeffs == poly_lagrange_to_monomial(s, q)
    IN After(<<y, q, coeffs>>,
             [proof |-> g1_lincomb(s.g1_values_monomial, coeffs, FieldElementsPerBlob),
              y |-> y])

compute_kzg_proof(s, blob, z_bytes) ==
    LET p == blob_to_polynomial(blob)
        z == bytes_to_bls_field(z_bytes)
        r == compute_kzg_proof_impl(s, p.poly, z.fr)
    IN IF p.ret # C_KZG_OK \/ z.ret # C_KZG_OK
         THEN [ret |-> C_KZG_BADARGS, proof |-> 0, y |-> 0]
         ELSE [ret |-> C_KZG_OK, proof |-> bytes_from_g1(r.proof),
               y |-> bytes_from_bls_field(r.y)]

\* e(commitment - [y]G1, G2) = e(proof, [tau]G2 - [z]G2)
verify_kzg_proof_impl(s, commitment, z, y, proof) ==
    pairings_verify(g1_sub(commitment, g1_mul(G1_GENERATOR, y)), G2_GENERATOR,
                    proof, g1_sub(s.g2_values_monomial[1], g1_mul(G2_GENERATOR, z)))

verify_kzg_proof(s, commitment_bytes, z_bytes, y_bytes, proof_bytes) ==
    LET c == bytes_to_g1(commitment_bytes)
        z == bytes_to_bls_field(z_bytes)
        y == bytes_to_bls_field(y_bytes)
        p == bytes_to_g1(proof_bytes)
    IN IF c.ret # C_KZG_OK \/ z.ret # C_KZG_OK \/ y.ret # C_KZG_OK \/ p.ret # C_KZG_OK
         THEN [ret |-> C_KZG_BADARGS, ok |-> FALSE]
         ELSE [ret |-> C_KZG_OK,
               ok |-> verify_kzg_proof_impl(s, c.g1, z.fr, y.fr, p.g1)]

compute_blob_kzg_proof(s, blob, commitment_bytes) ==
    LET p == blob_to_polynomial(blob)
        c == bytes_to_g1(commitment_bytes)
        z == compute_challenge(blob, commitment_bytes)
    IN IF p.ret # C_KZG_OK \/ c.ret # C_KZG_OK
         THEN [ret |-> C_KZG_BADARGS, proof |-> 0]
         ELSE [ret |-> C_KZG_OK,
               proof |-> bytes_from_g1(compute_kzg_proof_impl(s, p.poly, z).proof)]

verify_blob_kzg_proof(s, blob, commitment_bytes, proof_bytes) ==
    LET p == blob_to_polynomial(blob)
        c == bytes_to_g1(commitment_bytes)
        pr == bytes_to_g1(proof_bytes)
        z == compute_challenge(blob, commitment_bytes)
        y == evaluate_polynomial_in_evaluation_form(s, p.poly, z)
    IN IF p.ret # C_KZG_OK \/ c.ret # C_KZG_OK \/ pr.ret # C_KZG_OK
         THEN [ret |-> C_KZG_BADARGS, ok |-> FALSE]
         ELSE [ret |-> C_KZG_OK,
               ok |-> verify_kzg_proof_impl(s, c.g1, z, y, pr.g1)]

\* One pairing for n blobs: e(C + Z, G2) = e(P, [tau]G2) with C the sum of
\* r^i (commitment_i - [y_i]G1), P of r^i proof_i and Z of r^i z_i proof_i, r
\* drawn from the transcript of the commitments and proofs.  An empty batch is
\* refused.
verify_blob_kzg_proof_batch(s, blobs, commitments_bytes, proofs_bytes, n) ==
    LET z == [i \in 1..n |-> compute_challenge(blobs[i], commitments_bytes[i])]
        y == [i \in 1..n |->
                evaluate_polynomial_in_evaluation_form(
                    s, blob_to_polynomial(blobs[i]).poly, z[i])]
        r == hash_to_bls_field(<<n>> \o commitments_bytes \o proofs_bytes, 1)
        rpow == [i \in 0..(n - 1) |-> fr_pow(r, i)]
        C == fr_sum([i \in 0..(n - 1) |->
                       g1_mul(g1_sub(commitments_bytes[i + 1],
                                     g1_mul(G1_GENERATOR, y[i + 1])), rpow[i])], n)
        P == g1_lincomb([i \in 0..(n - 1) |-> proofs_bytes[i + 1]], rpow, n)
        Z == fr_sum([i \in 0..(n - 1) |->
                       g1_mul(proofs_bytes[i + 1], fr_mul(rpow[i], z[i + 1]))], n)
    IN IF \/ n = 0
          \/ \E i \in 1..n : \/ blob_to_polynomial(blobs[i]).ret # C_KZG_OK
                              \/ bytes_to_g1(commitments_bytes[i]).ret # C_KZG_OK
                              \/ bytes_to_g1(proofs_bytes[i]).ret # C_KZG_OK
         THEN [ret |-> C_KZG_BADARGS, ok |-> FALSE]
         ELSE After(<<Tabulate(z), Tabulate(y), Tabulate(rpow)>>,
                    [ret |-> C_KZG_OK,
                     ok |-> pairings_verify(g1_add(C, Z), G2_GENERATOR,
                                            P, s.g2_values_monomial[1])])

\* ---- 4.G cells (samples) ----

\* The coset shift of cell `index`: w^brp(index), w the extended domain's root.
coset_shift(s, index) ==
    s.roots_of_unity[reverse_bits(index, LogCellsPerExtBlob)]

\* FK20: the proofs of all cells from the monomial coefficients.  The Toeplitz
\* products h[j] = sum_k coeffs[k + m(j+1)] * [tau^k]G1 (m the cell size), then
\* a G1-FFT over the cells' domain, then BRP to wire order.
fk20(s, coeffs) ==
    LET N == FieldElementsPerBlob
        m == FieldElementsPerCell
        C == CellsPerExtBlob
        h == [j \in 0..(C - 1) |->
                IF m * (j + 1) >= N THEN 0
                ELSE LET n == N - m * (j + 1)
                     IN g1_lincomb(s.g1_values_monomial,
                                   [k \in 0..(n - 1) |-> coeffs[k + m * (j + 1)]], n)]
    IN After(Tabulate(h),
             bit_reversal_permutation(fr_fft(s, h, LogCellsPerExtBlob),
                                      LogCellsPerExtBlob))

\* The extended evaluations of a polynomial, in BRP (wire) order.
extended_evaluations(s, coeffs) ==
    bit_reversal_permutation(
        fr_fft(s, [i \in 0..(FieldElementsPerExtBlob - 1) |->
                     IF i < FieldElementsPerBlob THEN coeffs[i] ELSE 0],
               LogFieldElementsPerExtBlob),
        LogFieldElementsPerExtBlob)

\* data: the FieldElementsPerExtBlob field elements of the cells, cell after
\* cell; proofs: one per cell.
get_samples_and_proofs(s, blob) ==
    LET p == blob_to_polynomial(blob)
        coeffs == poly_lagrange_to_monomial(s, p.poly)
        data == extended_evaluations(s, coeffs)
        proofs == fk20(s, coeffs)
    IN IF p.ret # C_KZG_OK THEN [ret |-> p.ret, data |-> <<>>, proofs |-> <<>>]
       ELSE After(<<coeffs, data, proofs>>,
            [ret |-> C_KZG_OK,
             data |-> [i \in 1..FieldElementsPerExtBlob |->
                         bytes_from_bls_field(data[i - 1])],
             proofs |-> [i \in 1..CellsPerExtBlob |-> bytes_from_g1(proofs[i - 1])]])

\* The monomial coefficients of the polynomial of degree < cell size that
\* takes the cell's values on the cell's coset.
interpolate_cell(s, cell, index) ==
    LET h == coset_shift(s, index)
        d == fr_ifft(s, bit_reversal_permutation(cell, LogFieldElementsPerCell),
                     LogFieldElementsPerCell)
    IN After(d, Tabulate([k \in 0..(FieldElementsPerCell - 1) |->
                            fr_div(d[k], fr_pow(h, k))]))

\* e(commitment - [I(tau)]G1, G2) = e(proof, [tau^m]G2 - [h^m]G2)
verify_sample_proof(s, commitment_bytes, proof_bytes, data, index) ==
    LET m == FieldElementsPerCell
        c == bytes_to_g1(commitment_bytes)
        p == bytes_to_g1(proof_bytes)
        cell == [k \in 0..(m - 1) |-> bytes_to_bls_field(data[k + 1]).fr]
        interp == g1_lincomb(s.g1_values_monomial,
                             interpolate_cell(s, Tabulate(cell), index), m)
        hm == fr_pow(coset_shift(s, index), m)
    IN IF \/ c.ret # C_KZG_OK \/ p.ret # C_KZG_OK
          \/ index >= CellsPerExtBlob
          \/ \E k \in 1..m : bytes_to_bls_field(data[k]).ret # C_KZG_OK
         THEN [ret |-> C_KZG_BADARGS, ok |-> FALSE]
         ELSE [ret |-> C_KZG_OK,
               ok |-> pairings_verify(
                        g1_sub(c.g1, interp), G2_GENERATOR, p.g1,
                        g1_sub(s.g2_values_monomial[m], g1_mul(G2_GENERATOR, hm)))]

\* The byte of a missing field element (GetNullSample: every byte 0xff).
NullByte == 255

\* The cells of data with a missing element.
missing_cells(data) ==
    {i \in 0..(CellsPerExtBlob - 1) :
        \E k \in 1..FieldElementsPerCell :
            data[i * FieldElementsPerCell + k] = NullByte}

\* The product of (X^m - h_i^m) over the missing cells i: it vanishes on
\* exactly their cosets.
RECURSIVE vanishing_polynomial_for_missing_cells(_, _)
vanishing_polynomial_for_missing_cells(s, missing) ==
    IF missing = {}
      THEN Tabulate([k \in 0..(FieldElementsPerExtBlob - 1) |->
                       IF k = 0 THEN 1 ELSE 0])
      ELSE LET i == CHOOSE x \in missing : TRUE
               m == FieldElementsPerCell
               a == fr_pow(coset_shift(s, i), m)
               prev == vanishing_polynomial_for_missing_cells(s, missing \ {i})
           IN After(prev, Tabulate(
                [k \in 0..(FieldElementsPerExtBlob - 1) |->
                   fr_sub(IF k >= m THEN prev[k - m] ELSE 0, fr_mul(a, prev[k]))]))

\* The coefficients of p(c * X).
shift_poly(p, c) ==
    After(p, Tabulate([k \in 0..(FieldElementsPerExtBlob - 1) |-> fr_mul(p[k], fr_pow(c, k))]))

\* The monomial coefficients of the polynomial of degree < N that takes the
\* known values, from at least half of the cells.
recover_polynomial(s, data, missing) ==
    LET E == FieldElementsPerExtBlob
        logE == LogFieldElementsPerExtBlob
        m == FieldElementsPerCell
        \* natural order; an erasure is 0
        known == [t \in 0..(E - 1) |->
                    (reverse_bits(t, logE) \div m) \notin missing]
        nat == [t \in 0..(E - 1) |->
                  IF known[t] THEN data[reverse_bits(t, logE) + 1] ELSE 0]
        zpoly == vanishing_polynomial_for_missing_cells(s, missing)
        zeval == fr_fft(s, zpoly, logE)
        ez == fr_ifft(s, [t \in 0..(E - 1) |-> fr_mul(nat[t], zeval[t])], logE)
        shift == primitive_root(logE + 1)
        ezs == fr_fft(s, shift_poly(ez, shift), logE)
        zs == fr_fft(s, shift_poly(zpoly, shift), logE)
        fs == fr_ifft(s, [t \in 0..(E - 1) |-> fr_div(ezs[t], zs[t])], logE)
    IN After(<<zpoly, zeval, ez, ezs, zs, fs>>, shift_poly(fs, fr_inv(shift)))

recover_samples(s, data) ==
    LET missing == missing_cells(data)
        coeffs == recover_polynomial(s, data, missing)
        recovered == extended_evaluations(s, coeffs)
    IN IF \/ 2 * Cardinality(missing) > CellsPerExtBlob
          \/ \E i \in 1..FieldElementsPerExtBlob :
                data[i] # NullByte /\ bytes_to_bls_field(data[i]).ret # C_KZG_OK
         THEN [ret |-> C_KZG_BADARGS, recovered |-> <<>>]
         ELSE After(<<coeffs, recovered>>,
              [ret |-> C_KZG_OK,
               recovered |-> [i \in 1..FieldElementsPerExtBlob |->
                                bytes_from_bls_field(recovered[i - 1])]])

----------------------------------------------------------------------------
(***************************************************************************)
(* The Metal kernels' field arithmetic (kzg_kernels.metal): a field        *)
(* element is four limbs, least significant first, in Montgomery form.     *)
(* The limbs are LimbBits wide here, and the modulus is a prime of four    *)
(* such limbs with its top bit clear, as the scalar field's is.            *)
(***************************************************************************)

\* The width of a limb (64 in the kernels), and of the halves mul64 splits it in.
LimbBits == 2
HalfBits == 1

\* 2^LimbBits: limb arithmetic wraps at it.
LimbBase == 2 ^ LimbBits

\* The modulus (97) as limbs x, y, z, w; and -1/modulus mod 2^LimbBits.
MODULUS == <<1, 0, 2, 1>>
INV == 3

\* The value of limbs, and the limbs of a value.
LimbsValue(a) ==
    a[1] + LimbBase * (a[2] + LimbBase * (a[3] + LimbBase * a[4]))

ValueLimbs(v) ==
    <<v % LimbBase, (v \div LimbBase) % LimbBase,
      (v \div (LimbBase * LimbBase)) % LimbBase,
      (v \div (LimbBase * LimbBase * LimbBase)) % LimbBase>>

\* Op applied to the value of v: v is evaluated once, before Op.
With(v, Op(_)) == CHOOSE r \in {Op(x) : x \in {v}} : TRUE

adc_bits_SumBelowOnly(a, b, carry, half_bits) ==
    With((a + b + carry) % (2 ^ (2 * half_bits)),
         LAMBDA sum : [sum |-> sum, carry |-> IF sum < a THEN 1 ELSE 0])

mul64_bits_NoMidCarry(a, b, half_bits) ==
    LET half == 2 ^ half_bits
        base == half * half
        a_lo == a % half
        a_hi == a \div half
        b_lo == b % half
        b_hi == b \div half
        p0 == (a_lo * b_lo) % base
        p1 == (a_lo * b_hi) % base
        p2 == (a_hi * b_lo) % base
        p3 == (a_hi * b_hi) % base
        mid == (p1 + p2) % base
        lo == (p0 + ((mid * half) % base)) % base
        lo_carry == IF lo < p0 THEN 1 ELSE 0
    IN [lo |-> lo, hi |-> (p3 + (mid \div half) + lo_carry) % base]

\* The limb helpers, for limbs of 2 * half_bits bits.
\* adc: sum = a + b + carry, wrapped; carry out.
adc_bits(a, b, carry, half_bits) ==
    With((a + b + carry) % (2 ^ (2 * half_bits)),
         LAMBDA sum :
           [sum |-> sum,
            carry |-> IF sum < a \/ (carry # 0 /\ sum = a) THEN 1 ELSE 0])

\* mul64: the low and high limbs of a * b, from the products of the halves.
mul64_bits(a, b, half_bits) ==
    LET half == 2 ^ half_bits
        base == half * half
        a_lo == a % half
        a_hi == a \div half
        b_lo == b % half
        b_hi == b \div half
        p0 == (a_lo * b_lo) % base
        p1 == (a_lo * b_hi) % base
        p2 == (a_hi * b_lo) % base
        p3 == (a_hi * b_hi) % base
    IN With((p1 + p2) % base,
            LAMBDA mid :
              With((p0 + ((mid * half) % base)) % base,
                   LAMBDA lo :
                     LET mid_carry == IF mid < p1 THEN 1 ELSE 0
                         lo_carry == IF lo < p0 THEN 1 ELSE 0
                     IN [lo |-> lo,
                         hi |-> (p3 + (mid \div half)
                                    + ((mid_carry * half) % base) + lo_carry)
                                  % base]))

\* mac: a * b + c: the low limb, and hi with the high limb added.
mac_bits(a, b, c, hi, half_bits) ==
    With(mul64_bits(a, b, half_bits),
         LAMBDA prod :
           LET base == 2 ^ (2 * half_bits)
               sum == (prod.lo + c) % base
               sum_carry == IF sum < prod.lo THEN 1 ELSE 0
           IN [lo |-> sum, hi |-> (hi + prod.hi + sum_carry) % base])

\* The helpers on the field elements' limbs.
adc(a, b, carry) == adc_bits(a, b, carry, HalfBits)

mul64(a, b) == mul64_bits(a, b, HalfBits)

mac(a, b, c, hi) == mac_bits(a, b, c, hi, HalfBits)

\* a - m - borrow, wrapped, and the borrow out as the kernels compute it.
SubBorrow(a, m, borrow) ==
    [diff |-> (a - m - borrow) % LimbBase,
     borrow |-> IF a < (m + borrow) % LimbBase THEN 1 ELSE 0]

\* a minus the modulus if a >= the modulus.
metal_fr_reduce(a) ==
    LET ge == \/ a[4] > MODULUS[4]
              \/ /\ a[4] = MODULUS[4]
                 /\ \/ a[3] > MODULUS[3]
                    \/ /\ a[3] = MODULUS[3]
                       /\ \/ a[2] > MODULUS[2]
                          \/ (a[2] = MODULUS[2] /\ a[1] >= MODULUS[1])
    IN IF ge
         THEN With(SubBorrow(a[1], MODULUS[1], 0), LAMBDA d0 :
              With(SubBorrow(a[2], MODULUS[2], d0.borrow), LAMBDA d1 :
              With(SubBorrow(a[3], MODULUS[3], d1.borrow), LAMBDA d2 :
                <<d0.diff, d1.diff, d2.diff,
                  (a[4] - MODULUS[4] - d2.borrow) % LimbBase>>)))
         ELSE a

\* The four adc of a and b, limb by limb.
AddLimbs(a, b) ==
    With(adc(a[1], b[1], 0), LAMBDA r0 :
    With(adc(a[2], b[2], r0.carry), LAMBDA r1 :
    With(adc(a[3], b[3], r1.carry), LAMBDA r2 :
    With(adc(a[4], b[4], r2.carry), LAMBDA r3 :
      <<r0.sum, r1.sum, r2.sum, r3.sum>>))))

metal_fr_add(a, b) == With(AddLimbs(a, b), LAMBDA result : metal_fr_reduce(result))

metal_fr_sub(a, b) ==
    With(SubBorrow(a[1], b[1], 0), LAMBDA d0 :
    With(SubBorrow(a[2], b[2], d0.borrow), LAMBDA d1 :
    With(SubBorrow(a[3], b[3], d1.borrow), LAMBDA d2 :
    With(SubBorrow(a[4], b[4], d2.borrow), LAMBDA d3 :
      IF d3.borrow # 0
        THEN AddLimbs(<<d0.diff, d1.diff, d2.diff, d3.diff>>, MODULUS)
        ELSE <<d0.diff, d1.diff, d2.diff, d3.diff>>))))

\* One step of the multiplication's loops: x * y + c + carry, as the low limb
\* and the carry into the next limb.
MacCarry(x, y, c, carry) ==
    With(mac(x, y, c, 0),
         LAMBDA r :
           With((r.lo + carry) % LimbBase,
                LAMBDA lo :
                  [lo |-> lo,
                   hi |-> IF lo < carry THEN (r.hi + 1) % LimbBase ELSE r.hi]))

\* The inner loop over j: a * b[i] added to t at limb i (t is indexed from 1).
RECURSIVE MulAccumulate(_, _, _, _, _, _)
MulAccumulate(a, bi, t, i, j, carry) ==
    IF j = 4
      THEN [t EXCEPT ![i + 5] = (t[i + 5] + carry) % LimbBase]
      ELSE With(MacCarry(a[j + 1], bi, t[i + j + 1], carry),
                LAMBDA r :
                  With([t EXCEPT ![i + j + 1] = r.lo],
                       LAMBDA t1 : MulAccumulate(a, bi, t1, i, j + 1, r.hi)))

\* The reduction step of round i: m * MODULUS added to t at limb i.
MontgomeryStep(t, i) ==
    With((t[i + 1] * INV) % LimbBase, LAMBDA m :
    With(mac(m, MODULUS[1], t[i + 1], 0), LAMBDA r0 :
    With(MacCarry(m, MODULUS[2], t[i + 2], r0.hi), LAMBDA r1 :
    With(MacCarry(m, MODULUS[3], t[i + 3], r1.hi), LAMBDA r2 :
    With(MacCarry(m, MODULUS[4], t[i + 4], r2.hi), LAMBDA r3 :
    With((t[i + 5] + r3.hi) % LimbBase, LAMBDA top :
      IF top < r3.hi /\ i + 5 < 8
        THEN [t EXCEPT ![i + 2] = r1.lo, ![i + 3] = r2.lo, ![i + 4] = r3.lo,
                       ![i + 5] = top, ![i + 6] = (t[i + 6] + 1) % LimbBase]
        ELSE [t EXCEPT ![i + 2] = r1.lo, ![i + 3] = r2.lo, ![i + 4] = r3.lo,
                       ![i + 5] = top]))))))

RECURSIVE MulRounds(_, _, _, _)
MulRounds(a, b, t, i) ==
    IF i = 4 THEN t
    ELSE With(MulAccumulate(a, b[i + 1], t, i, 0, 0), LAMBDA t1 :
         With(MontgomeryStep(t1, i), LAMBDA t2 : MulRounds(a, b, t2, i + 1)))

\* The Montgomery product a * b / R mod the modulus.
metal_fr_mul(a, b) ==
    With(MulRounds(a, b, <<0, 0, 0, 0, 0, 0, 0, 0>>, 0),
         LAMBDA t : With(<<t[5], t[6], t[7], t[8]>>,
                         LAMBDA result : metal_fr_reduce(result)))

(***************************************************************************)
(* The values the host hands to the kernels.  They come from blst, which   *)
(* is not part of the kernels' source: Montgomery form is v * R mod the    *)
(* modulus with R = 2^(4 * LimbBits), and the roots of unity are the       *)
(* powers of an element of order MetalMaxFft.                              *)
(***************************************************************************)

\* The modulus and R as numbers.
MetalModulus == LimbsValue(MODULUS)

MontgomeryR == (LimbBase * LimbBase * LimbBase * LimbBase) % MetalModulus

RECURSIVE MetalPow(_, _)
MetalPow(a, k) ==
    IF k = 0 THEN 1
    ELSE LET h == MetalPow(a, k \div 2)
         IN (h * h * (IF k % 2 = 1 THEN a ELSE 1)) % MetalModulus

\* The inverse of a non-zero value (Fermat).
MetalInverse(a) == MetalPow(a, MetalModulus - 2)

\* blst's fr_t of a value, and the value of an fr_t.
ToMontgomery(v) == ValueLimbs((v * MontgomeryR) % MetalModulus)

FromMontgomery(a) == (LimbsValue(a) * MetalInverse(MontgomeryR)) % MetalModulus

\* The largest transform (the settings' domain), as a power of two.
LogMetalMaxFft == 3
MetalMaxFft == 2 ^ LogMetalMaxFft

\* The root of unity of the domain: the least element of order MetalMaxFft.
MetalRootOfUnity ==
    CHOOSE w \in 2..(MetalModulus - 1) :
        /\ MetalPow(w, MetalMaxFft) = 1
        /\ MetalPow(w, MetalMaxFft \div 2) # 1

\* The settings' roots_of_unity and reverse_roots_of_unity (index i at i + 1).
metal_roots_of_unity ==
    [i \in 1..(MetalMaxFft + 1) |-> ToMontgomery(MetalPow(MetalRootOfUnity, i - 1))] @@ <<>>

metal_reverse_roots_of_unity ==
    [i \in 1..(MetalMaxFft + 1) |-> metal_roots_of_unity[MetalMaxFft + 2 - i]] @@ <<>>

(***************************************************************************)
(* The kernels of the transform (kzg_kernels.metal) and their host         *)
(* function (metal_runtime.m).  A buffer is a sequence, element i of the   *)
(* source at i + 1.  A dispatch runs its threads one after the other in    *)
(* the order of their ids: the threads of one dispatch touch disjoint      *)
(* elements.                                                               *)
(***************************************************************************)

\* Below this length metal_fr_fft leaves the transform to the caller (256 in
\* the source).
MIN_GPU_FFT_SIZE == 4

RECURSIVE log2_uint(_)
log2_uint(n) == IF n <= 1 THEN 0 ELSE 1 + log2_uint(n \div 2)

\* The loop of bit_reversal: the low log_n bits of val, reversed.
RECURSIVE BitReversedIndex(_, _, _)
BitReversedIndex(rev, val, k) ==
    IF k = 0 THEN rev
    ELSE BitReversedIndex(2 * rev + (val % 2), val \div 2, k - 1)

\* One thread of bit_reversal.
bit_reversal(data, n, log_n, gid) ==
    LET rev == BitReversedIndex(0, gid, log_n)
    IN IF gid >= n THEN data
       ELSE IF gid < rev /\ rev < n
              THEN [data EXCEPT ![gid + 1] = data[rev + 1], ![rev + 1] = data[gid + 1]]
              ELSE data

\* One thread of scale_elements.
scale_elements(data, scale, n, gid) ==
    IF gid >= n THEN data
    ELSE [data EXCEPT ![gid + 1] = metal_fr_mul(data[gid + 1], scale)]

\* One thread of fft_radix2_stage.
fft_radix2_stage(data, roots, n, stage, roots_stride_base, gid) ==
    LET half_n == 2 ^ stage
        block_size == half_n * 2
        num_butterflies == n \div 2
        block_idx == gid \div half_n
        idx_in_block == gid % half_n
        i == block_idx * block_size + idx_in_block
        j == i + half_n
        roots_stride == roots_stride_base \div (2 ^ stage)
        root_idx == idx_in_block * roots_stride
        w == roots[root_idx + 1]
        a == data[i + 1]
        b == data[j + 1]
    IN IF gid >= num_butterflies THEN data
       ELSE With(metal_fr_mul(w, b),
                 LAMBDA wb : [data EXCEPT ![i + 1] = metal_fr_add(a, wb),
                                          ![j + 1] = metal_fr_sub(a, wb)])

\* The dispatches: threads gid .. count - 1 of a kernel.
RECURSIVE DispatchBitReversal(_, _, _, _, _)
DispatchBitReversal(data, n, log_n, gid, count) ==
    IF gid >= count THEN data
    ELSE With(bit_reversal(data, n, log_n, gid),
              LAMBDA next : DispatchBitReversal(next, n, log_n, gid + 1, count))

RECURSIVE DispatchStage(_, _, _, _, _, _, _)
DispatchStage(data, roots, n, stage, roots_stride_base, gid, count) ==
    IF gid >= count THEN data
    ELSE With(fft_radix2_stage(data, roots, n, stage, roots_stride_base, gid),
              LAMBDA next : DispatchStage(next, roots, n, stage, roots_stride_base,
                                          gid + 1, count))

RECURSIVE DispatchScale(_, _, _, _, _)
DispatchScale(data, scale, n, gid, count) ==
    IF gid >= count THEN data
    ELSE With(scale_elements(data, scale, n, gid),
              LAMBDA next : DispatchScale(next, scale, n, gid + 1, count))

\* The loop over the stages of metal_fr_fft.
RECURSIVE FftStages(_, _, _, _, _)
FftStages(data, roots, n, stage, log_n) ==
    IF stage >= log_n THEN data
    ELSE With(DispatchStage(data, roots, n, stage, n \div 2, 0, n \div 2),
              LAMBDA next : FftStages(next, roots, n, stage + 1, log_n))

\* metal_fr_fft: its status and what it leaves in out.  bufferFails is the
\* outcome of the buffer allocations.
metal_fr_fft(out_, in, n, roots, roots_stride, inverse, bufferFails) ==
    IF n < MIN_GPU_FFT_SIZE THEN [ret |-> C_KZG_ERROR, out |-> out_]
    ELSE IF bufferFails THEN [ret |-> C_KZG_MALLOC, out |-> out_]
    ELSE
      With(log2_uint(n), LAMBDA log_n :
      With([i \in 1..n |-> roots[(i - 1) * roots_stride + 1]] @@ <<>>,
           LAMBDA roots_contiguous :
      With(DispatchBitReversal(in, n, log_n, 0, n), LAMBDA reversed :
      With(FftStages(reversed, roots_contiguous, n, 0, log_n), LAMBDA staged :
      With(ToMontgomery(MetalInverse(n)), LAMBDA inv_n :
        [ret |-> C_KZG_OK,
         out |-> IF inverse THEN DispatchScale(staged, inv_n, n, 0, n)
                 ELSE staged])))))

\* The lengths of the transforms, the values of the caller's elements, and how
\* many leading elements of an array vary (element i beyond them holds i).
MetalSizes == {2 ^ k : k \in 1..LogMetalMaxFft}

MetalValues == {0, 1, 13}

MaxMetalVarying == 4

RECURSIVE MetalArrays(_, _)
MetalArrays(n, i) ==
    IF i > n THEN {<<>>}
    ELSE {<<ToMontgomery(v)>> \o a :
            v \in IF i <= MaxMetalVarying THEN MetalValues ELSE {(i - 1) % MetalModulus},
            a \in MetalArrays(n, i + 1)}

\* The caller's forward transform of mIn into mOut.
MetalFrFft ==
    /\ mOp.op = "none"
    /\ \E bufferFails \in BOOLEAN :
         LET n == Len(mIn)
             r == metal_fr_fft(mOut, mIn, n, metal_roots_of_unity, MetalMaxFft \div n,
                               FALSE, bufferFails)
         IN /\ mOut' = r.out
            /\ mOp' = [op |-> "fft", ret |-> r.ret]
    /\ UNCHANGED mIn
    /\ UNCHANGED <<goVars, setVars, kzgVars, sharedVars, grVars, gpuVars>>

\* The caller's inverse transform of mOut, in place, after a forward transform
\* that returned C_KZG_OK.
MetalFrIfft ==
    /\ mOp.op = "fft"
    /\ mOp.ret = C_KZG_OK
    /\ \E bufferFails \in BOOLEAN :
         LET n == Len(mIn)
             r == metal_fr_fft(mOut, mOut, n, metal_reverse_roots_of_unity,
                               MetalMaxFft \div n, TRUE, bufferFails)
         IN /\ mOut' = r.out
            /\ mOp' = [op |-> "ifft", ret |-> r.ret]
    /\ UNCHANGED mIn
    /\ UNCHANGED <<goVars, setVars, kzgVars, sharedVars, grVars, gpuVars>>

MetalIdle ==
    /\ mIn = <<>>
    /\ mOut = <<>>
    /\ mOp = [op |-> "none"]

MetalInit ==
    /\ \E n \in MetalSizes :
         /\ mIn \in MetalArrays(n, 1)
         /\ mOut = [i \in 1..n |-> ValueLimbs(0)]
    /\ mOp = [op |-> "none"]

MetalNext ==
    \/ MetalFrFft
    \/ MetalFrIfft

----------------------------------------------------------------------------
(***************************************************************************)
(* The accelerator of the Go binding (metal_poc/MetalKZGAccelerator):      *)
(* gpu_fr_fft and gpu_compute_cells_and_kzg_proofs.  An fr_t is the four   *)
(* limbs of its value; a gpu_field_element_t has six limbs, of which the   *)
(* conversions fill and read back the first four from the fr_t (the other  *)
(* two are copied from and to the memory behind the fr_t, and the lanes of *)
(* the shader do not mix).  An array is a function on 0..n-1.              *)
(***************************************************************************)

\* fr_to_gpu_element and gpu_element_to_fr: the copies of the limbs.
fr_to_gpu_element(fr) == ValueLimbs(fr)

gpu_element_to_fr(gpu_elem) == LimbsValue(gpu_elem)

\* The shader's a.low + b.low and a.low - b.low: lane by lane, wrapping.
LaneAdd(a, b) == [k \in 1..4 |-> (a[k] + b[k]) % LimbBase] @@ <<>>

LaneSub(a, b) == [k \in 1..4 |-> (a[k] - b[k]) % LimbBase] @@ <<>>

\* One thread of the shader fft_radix2_layer.
fft_radix2_layer(data, roots, layer, n, tid) ==
    LET stride == 2 ^ layer
        pair_idx == tid \div stride
        idx_in_pair == tid % stride
        i == pair_idx * stride * 2 + idx_in_pair
        j == i + stride
    IN IF j < n
         THEN [data EXCEPT ![i] = LaneAdd(data[i], data[j]),
                           ![j] = LaneSub(data[i], data[j])]
         ELSE data

\* The threads tid .. count - 1 of one layer.
RECURSIVE DispatchLayer(_, _, _, _, _, _)
DispatchLayer(data, roots, layer, n, tid, count) ==
    IF tid >= count THEN data
    ELSE With(fft_radix2_layer(data, roots, layer, n, tid),
              LAMBDA next : DispatchLayer(next, roots, layer, n, tid + 1, count))

RECURSIVE FftLayers(_, _, _, _, _)
FftLayers(data, roots, layer, logN, n) ==
    IF layer >= logN THEN data
    ELSE With(DispatchLayer(data, roots, layer, n, 0, n \div 2),
              LAMBDA next : FftLayers(next, roots, layer + 1, logN, n))

\* metal_fft_fr: 0 and the transformed data, or -1.  handle is the context
\* (NULL when there is none), buffersOk the outcome of the buffer allocations.
metal_fft_fr(handle, data, roots, n, inverse, buffersOk) ==
    IF handle = NULL \/ ~buffersOk THEN [ret |-> 0 - 1, data |-> data]
    ELSE [ret |-> 0, data |-> FftLayers(data, roots, 0, log2_uint(n), n)]

\* gpu_fr_fft with the global handle g_metal_handle: the status and out.
gpu_fr_fft(in, n, s, g_metal_handle, callocOk, buffersOk) ==
    IF g_metal_handle = NULL
      THEN [ret |-> C_KZG_OK, out |-> fr_fft(s, in, log2_uint(n))]
    ELSE IF ~callocOk THEN [ret |-> C_KZG_MALLOC, out |-> <<>>]
    ELSE
      LET roots_stride == FieldElementsPerExtBlob \div n
      IN With([i \in 0..(n - 1) |-> fr_to_gpu_element(in[i])] @@ <<>>, LAMBDA gpu_data :
         With([i \in 0..(n - 1) |-> fr_to_gpu_element(s.roots_of_unity[i * roots_stride])]
                @@ <<>>, LAMBDA gpu_roots :
         With(metal_fft_fr(g_metal_handle, gpu_data, gpu_roots, n, FALSE, buffersOk),
              LAMBDA r :
                IF r.ret = 0
                  THEN [ret |-> C_KZG_OK,
                        out |-> [i \in 0..(n - 1) |-> gpu_element_to_fr(r.data[i])] @@ <<>>]
                  ELSE [ret |-> C_KZG_ERROR, out |-> <<>>])))

\* compute_cells_and_kzg_proofs, the sequential reference (C library).
compute_cells_and_kzg_proofs(s, blob) ==
    With(get_samples_and_proofs(s, blob),
         LAMBDA r : [ret |-> r.ret, cells |-> r.data, proofs |-> r.proofs])

\* gpu_compute_cells_and_kzg_proofs: the status, the cells' field elements
\* (cell after cell) and the proofs.  g_metal_handle is the global handle at
\* the call, initOk the outcome of init_metal_acceleration when it is NULL.
\* gpuOk: the allocations of the two gpu_fr_fft calls succeed.
gpu_compute_cells_and_kzg_proofs(s, blob, g_metal_handle, initOk, gpuOk) ==
    IF g_metal_handle = NULL /\ ~initOk THEN compute_cells_and_kzg_proofs(s, blob)
    ELSE
      LET N == FieldElementsPerBlob
          E == FieldElementsPerExtBlob
          p == blob_to_polynomial(blob)
      IN IF p.ret # C_KZG_OK THEN [ret |-> p.ret, cells |-> <<>>, proofs |-> <<>>]
         ELSE
           With(bit_reversal_permutation(p.poly, LogFieldElementsPerBlob), LAMBDA temp :
           With(gpu_fr_fft(temp, N, s, 1, gpuOk, gpuOk), LAMBDA first :
             IF first.ret # C_KZG_OK
               THEN [ret |-> first.ret, cells |-> <<>>, proofs |-> <<>>]
               ELSE
           With([i \in 0..(E - 1) |-> IF i < N THEN first.out[i] ELSE 0] @@ <<>>,
                LAMBDA poly_monomial :
           With(gpu_fr_fft(poly_monomial, E, s, 1, gpuOk, gpuOk), LAMBDA second :
           With(bit_reversal_permutation(second.out, LogFieldElementsPerExtBlob),
                LAMBDA data_fr :
           With(fk20(s, poly_monomial), LAMBDA proofs_g1 :
             [ret |-> C_KZG_OK,
              cells |-> [i \in 1..E |-> bytes_from_bls_field(data_fr[i - 1])],
              proofs |-> [i \in 1..CellsPerExtBlob |->
                            bytes_from_g1(proofs_g1[i - 1])]]))))))

----------------------------------------------------------------------------
(***************************************************************************)
(* The binding's KZG operations on a blob (benchmark_metal.c, the Go       *)
(* source it carries).  A round commits to the blob, then computes a       *)
(* proof or the samples, then verifies or recovers.                        *)
(***************************************************************************)

\* Bound: the seeds of the test blobs.
MaxBlobSeed == 1

\* The secrets of the trusted setups that are loaded.
Taus == {5, 10}

GetDataCount == FieldElementsPerExtBlob

GetSampleSize == FieldElementsPerCell

GetSampleCount == CellsPerExtBlob

GetNullSample == [i \in 1..GetSampleSize |-> NullByte]

chunk(data) ==
    IF Len(data) # GetDataCount
      THEN [samples |-> <<>>, err |-> "ErrInvalidDataLength"]
      ELSE [samples |->
              [i \in 1..GetSampleCount |->
                 SubSeq(data, (i - 1) * GetSampleSize + 1, i * GetSampleSize)],
            err |-> "nil"]

\* data[i] = samples[i % sampleCount][i / sampleCount]
flatten_Transposed(samples) ==
    IF Len(samples) # GetSampleCount
      THEN [data |-> <<>>, err |-> "ErrInvalidSampleCount"]
    ELSE IF \E i \in 1..Len(samples) : Len(samples[i]) # GetSampleSize
      THEN [data |-> <<>>, err |-> "ErrInvalidSampleSize"]
    ELSE [data |->
            [i \in 1..GetDataCount |->
               samples[((i - 1) % GetSampleCount) + 1]
                      [(((i - 1) \div GetSampleCount) % GetSampleSize) + 1]],
          err |-> "nil"]

\* Only a list that is too short is refused.
flatten_CountAtLeast(samples) ==
    IF Len(samples) < GetSampleCount
      THEN [data |-> <<>>, err |-> "ErrInvalidSampleCount"]
    ELSE IF \E i \in 1..Len(samples) : Len(samples[i]) # GetSampleSize
      THEN [data |-> <<>>, err |-> "ErrInvalidSampleSize"]
    ELSE [data |->
            [i \in 1..GetDataCount |->
               samples[((i - 1) \div GetSampleSize) + 1]
                      [((i - 1) % GetSampleSize) + 1]],
          err |-> "nil"]

\* data[i] = samples[i / sampleSize][i % sampleSize]
flatten(samples) ==
    IF Len(samples) # GetSampleCount
      THEN [data |-> <<>>, err |-> "ErrInvalidSampleCount"]
    ELSE IF \E i \in 1..Len(samples) : Len(samples[i]) # GetSampleSize
      THEN [data |-> <<>>, err |-> "ErrInvalidSampleSize"]
    ELSE [data |->
            [i \in 1..GetDataCount |->
               samples[((i - 1) \div GetSampleSize) + 1]
                      [((i - 1) % GetSampleSize) + 1]],
          err |-> "nil"]

\* A blob of canonical field elements that depend on the seed.
getRandBlob(seed) ==
    [i \in 1..FieldElementsPerBlob |-> (seed * (i * i + 7) + 3 * i) % BLS_MODULUS]

\* The blobs: the zero blob, a blob with a field element that is not
\* canonical, and the seeded blobs.
Blobs ==
    {[i \in 1..FieldElementsPerBlob |-> 0],
     [getRandBlob(1) EXCEPT ![FieldElementsPerBlob] = BLS_MODULUS]}
    \cup {getRandBlob(seed) : seed \in 1..MaxBlobSeed}

\* The evaluation points: every canonical field element and one that is not.
ZBytes == Fr \cup {BLS_MODULUS}

\* Another canonical byte string.
Tampered(b) == (b + 1) % BLS_MODULUS

KzgBlobToKZGCommitment ==
    /\ loaded
    /\ kOp.op = "none"
    /\ LET r == blob_to_kzg_commitment(kSetup, kBlob)
       IN /\ kCommitment' = r.commitment
          /\ kOp' = [op |-> "BlobToKZGCommitment", err |-> makeErrorFromRet(r.ret)]
    /\ UNCHANGED <<kSetup, kBlob, kSamples, kProofs>>
    /\ UNCHANGED <<goVars, setVars, metalVars, sharedVars, grVars, gpuVars>>

ComputeKZGProofResult(zBytes, r) ==
    [op |-> "ComputeKZGProof", z |-> zBytes, proof |-> r.proof, y |-> r.y,
     err |-> makeErrorFromRet(r.ret)]

\* The two outputs land in each other's place.
KzgComputeKZGProof_Swapped ==
    /\ loaded
    /\ kOp.op = "BlobToKZGCommitment"
    /\ \E zBytes \in ZBytes :
         LET r == compute_kzg_proof(kSetup, kBlob, zBytes)
         IN kOp' = ComputeKZGProofResult(zBytes, [r EXCEPT !.proof = r.y, !.y = r.proof])
    /\ UNCHANGED <<kSetup, kBlob, kCommitment, kSamples, kProofs>>
    /\ UNCHANGED <<goVars, setVars, metalVars, sharedVars, grVars, gpuVars>>

KzgComputeKZGProof ==
    /\ loaded
    /\ kOp.op = "BlobToKZGCommitment"
    /\ \E zBytes \in ZBytes :
         kOp' = ComputeKZGProofResult(zBytes, compute_kzg_proof(kSetup, kBlob, zBytes))
    /\ UNCHANGED <<kSetup, kBlob, kCommitment, kSamples, kProofs>>
    /\ UNCHANGED <<goVars, setVars, metalVars, sharedVars, grVars, gpuVars>>

\* A false result is reported as an error.
VerifyResult_ErrorOnFalse(op, args, r) ==
    [op |-> op, args |-> args, ok |-> r.ok,
     err |-> IF r.ok THEN makeErrorFromRet(r.ret) ELSE makeErrorFromRet(C_KZG_ERROR)]

VerifyResult(op, args, r) ==
    [op |-> op, args |-> args, ok |-> r.ok, err |-> makeErrorFromRet(r.ret)]

KzgVerifyKZGProof ==
    /\ loaded
    /\ kOp.op = "ComputeKZGProof"
    /\ kOp.err = "nil"
    /\ \E tamper \in {"none", "y", "malformed"} :
         LET yBytes == IF tamper = "y" THEN Tampered(kOp.y)
                       ELSE IF tamper = "malformed" THEN BLS_MODULUS
                       ELSE kOp.y
         IN kOp' = VerifyResult("VerifyKZGProof",
                                [z |-> kOp.z, y |-> kOp.y, tamper |-> tamper],
                                verify_kzg_proof(kSetup, kCommitment, kOp.z, yBytes,
                                                 kOp.proof))
    /\ UNCHANGED <<kSetup, kBlob, kCommitment, kSamples, kProofs>>
    /\ UNCHANGED <<goVars, setVars, metalVars, sharedVars, grVars, gpuVars>>

KzgComputeBlobKZGProof ==
    /\ loaded
    /\ kOp.op = "BlobToKZGCommitment"
    /\ LET r == compute_blob_kzg_proof(kSetup, kBlob, kCommitment)
       IN kOp' = [op |-> "ComputeBlobKZGProof", proof |-> r.proof,
                  err |-> makeErrorFromRet(r.ret)]
    /\ UNCHANGED <<kSetup, kBlob, kCommitment, kSamples, kProofs>>
    /\ UNCHANGED <<goVars, setVars, metalVars, sharedVars, grVars, gpuVars>>

\* The commitment and the proof land in each other's place.
KzgVerifyBlobKZGProof_Swapped ==
    /\ loaded
    /\ kOp.op = "ComputeBlobKZGProof"
    /\ kOp.err = "nil"
    /\ \E tamper \in {"none", "proof"} :
         LET proofBytes == IF tamper = "proof" THEN Tampered(kOp.proof) ELSE kOp.proof
         IN kOp' = VerifyResult("VerifyBlobKZGProof", [tamper |-> tamper],
                                verify_blob_kzg_proof(kSetup, kBlob, proofBytes,
                                                      kCommitment))
    /\ UNCHANGED <<kSetup, kBlob, kCommitment, kSamples, kProofs>>
    /\ UNCHANGED <<goVars, setVars, metalVars, sharedVars, grVars, gpuVars>>

KzgVerifyBlobKZGProof ==
    /\ loaded
    /\ kOp.op = "ComputeBlobKZGProof"
    /\ kOp.err = "nil"
    /\ \E tamper \in {"none", "proof"} :
         LET proofBytes == IF tamper = "proof" THEN Tampered(kOp.proof) ELSE kOp.proof
         IN kOp' = VerifyResult("VerifyBlobKZGProof", [tamper |-> tamper],
                                verify_blob_kzg_proof(kSetup, kBlob, kCommitment,
                                                      proofBytes))
    /\ UNCHANGED <<kSetup, kBlob, kCommitment, kSamples, kProofs>>
    /\ UNCHANGED <<goVars, setVars, metalVars, sharedVars, grVars, gpuVars>>

\* Bound: the longest list handed to VerifyBlobKZGProofBatch.
MaxBatch == 2

\* Lists of different lengths return false without error.
VerifyBlobKZGProofBatchResult_NilOnMismatch(args, r) ==
    IF args.blobs # args.commitments \/ args.blobs # args.proofs
      THEN [op |-> "VerifyBlobKZGProofBatch", args |-> args, ok |-> FALSE,
            err |-> "nil"]
      ELSE VerifyResult("VerifyBlobKZGProofBatch", args, r)

\* args: the lengths of the three lists.
VerifyBlobKZGProofBatchResult(args, r) ==
    IF args.blobs # args.commitments \/ args.blobs # args.proofs
      THEN [op |-> "VerifyBlobKZGProofBatch", args |-> args, ok |-> FALSE,
            err |-> "ErrBadArgs"]
      ELSE VerifyResult("VerifyBlobKZGProofBatch", args, r)

\* The lists repeat the blob, its commitment and its proof.
KzgVerifyBlobKZGProofBatch ==
    /\ loaded
    /\ kOp.op = "ComputeBlobKZGProof"
    /\ kOp.err = "nil"
    /\ \E nBlobs \in 0..MaxBatch, nCommitments \in 0..MaxBatch,
          nProofs \in 0..MaxBatch, tamper \in {"none", "proof"} :
         /\ tamper = "proof" => (nBlobs = nCommitments /\ nBlobs = nProofs /\ nBlobs > 0)
         /\ kOp' = VerifyBlobKZGProofBatchResult(
                     [blobs |-> nBlobs, commitments |-> nCommitments,
                      proofs |-> nProofs, tamper |-> tamper],
                     verify_blob_kzg_proof_batch(
                         kSetup,
                         [i \in 1..nBlobs |-> kBlob],
                         [i \in 1..nCommitments |-> kCommitment],
                         [i \in 1..nProofs |->
                            IF tamper = "proof" /\ i = nProofs
                              THEN Tampered(kOp.proof) ELSE kOp.proof],
                         nBlobs))
    /\ UNCHANGED <<kSetup, kBlob, kCommitment, kSamples, kProofs>>
    /\ UNCHANGED <<goVars, setVars, metalVars, sharedVars, grVars, gpuVars>>

GetSamplesAndProofsResult(r, c) ==
    IF makeErrorFromRet(r.ret) # "nil"
      THEN [samples |-> <<>>, proofs |-> <<>>, err |-> makeErrorFromRet(r.ret)]
    ELSE IF c.err # "nil"
      THEN [samples |-> <<>>, proofs |-> <<>>, err |-> c.err]
    ELSE [samples |-> c.samples, proofs |-> r.proofs, err |-> "nil"]

KzgGetSamplesAndProofs ==
    /\ loaded
    /\ kOp.op = "BlobToKZGCommitment"
    /\ LET r == get_samples_and_proofs(kSetup, kBlob)
           res == GetSamplesAndProofsResult(r, chunk(r.data))
       IN /\ kSamples' = res.samples
          /\ kProofs' = res.proofs
          /\ kOp' = [op |-> "GetSamplesAndProofs", err |-> res.err]
    /\ UNCHANGED <<kSetup, kBlob, kCommitment>>
    /\ UNCHANGED <<goVars, setVars, metalVars, sharedVars, grVars, gpuVars>>

\* The samples with the missing ones replaced by the null sample.
deleteSamples(samples, missing) ==
    [j \in 1..GetSampleCount |->
       IF (j - 1) \in missing THEN GetNullSample ELSE samples[j]]

\* results: the values returned before the error.
RecoverSamplesResult(missing, f, r, c) ==
    IF f.err # "nil"
      THEN [op |-> "RecoverSamples", missing |-> missing, results |-> <<<<>>>>,
            err |-> f.err]
    ELSE IF makeErrorFromRet(r.ret) # "nil"
      THEN [op |-> "RecoverSamples", missing |-> missing, results |-> <<<<>>>>,
            err |-> makeErrorFromRet(r.ret)]
    ELSE IF c.err # "nil"
      THEN [op |-> "RecoverSamples", missing |-> missing, results |-> <<<<>>>>,
            err |-> c.err]
    ELSE [op |-> "RecoverSamples", missing |-> missing, results |-> <<c.samples>>,
          err |-> "nil"]

KzgRecoverSamples ==
    /\ loaded
    /\ kOp.op = "GetSamplesAndProofs"
    /\ kOp.err = "nil"
    /\ \E missing \in SUBSET (0..(GetSampleCount - 1)),
          count \in {GetSampleCount - 1, GetSampleCount, GetSampleCount + 1} :
         \* count samples are passed: the list cut short, or with the first
         \* sample once more at its end
         /\ count # GetSampleCount => missing = {}
         /\ LET partial == deleteSamples(kSamples, missing)
                f == flatten([j \in 1..count |->
                                IF j > GetSampleCount THEN kSamples[1] ELSE partial[j]])
                r == IF f.err = "nil" THEN recover_samples(kSetup, f.data)
                     ELSE [ret |-> C_KZG_OK, recovered |-> <<>>]
            IN kOp' = RecoverSamplesResult(missing, f, r, chunk(r.recovered))
                        @@ [count |-> count]
    /\ UNCHANGED <<kSetup, kBlob, kCommitment, kSamples, kProofs>>
    /\ UNCHANGED <<goVars, setVars, metalVars, sharedVars, grVars, gpuVars>>

VerifySampleProofResult(args, sample, r) ==
    IF Len(sample) # GetSampleSize
      THEN [op |-> "VerifySampleProof", args |-> args, ok |-> FALSE,
            err |-> "ErrBadArgs"]
      ELSE VerifyResult("VerifySampleProof", args, r)

\* The commitment and the proof land in each other's place.
KzgVerifySampleProof_Swapped ==
    /\ loaded
    /\ kOp.op = "GetSamplesAndProofs"
    /\ kOp.err = "nil"
    /\ \E index \in 0..(GetSampleCount - 1), tamper \in {"none", "index", "sample"} :
         LET sample == IF tamper = "sample"
                         THEN [kSamples[index + 1] EXCEPT ![1] = Tampered(@)]
                         ELSE kSamples[index + 1]
             at == IF tamper = "index" THEN (index + 1) % GetSampleCount ELSE index
         IN kOp' = VerifySampleProofResult(
                     [index |-> index, tamper |-> tamper], sample,
                     verify_sample_proof(kSetup, kProofs[index + 1], kCommitment,
                                         sample, at))
    /\ UNCHANGED <<kSetup, kBlob, kCommitment, kSamples, kProofs>>
    /\ UNCHANGED <<goVars, setVars, metalVars, sharedVars, grVars, gpuVars>>

KzgVerifySampleProof ==
    /\ loaded
    /\ kOp.op = "GetSamplesAndProofs"
    /\ kOp.err = "nil"
    /\ \E index \in 0..(GetSampleCount - 1), tamper \in {"none", "index", "sample"} :
         LET sample == IF tamper = "sample"
                         THEN [kSamples[index + 1] EXCEPT ![1] = Tampered(@)]
                         ELSE kSamples[index + 1]
             at == IF tamper = "index" THEN (index + 1) % GetSampleCount ELSE index
         IN kOp' = VerifySampleProofResult(
                     [index |-> index, tamper |-> tamper], sample,
                     verify_sample_proof(kSetup, kCommitment, kProofs[index + 1],
                                         sample, at))
    /\ UNCHANGED <<kSetup, kBlob, kCommitment, kSamples, kProofs>>
    /\ UNCHANGED <<goVars, setVars, metalVars, sharedVars, grVars, gpuVars>>

\* gpu_fr_fft on the blob's field elements, or on them followed by as many
\* zeros, next to fr_fft on the same array.
KzgGpuFrFft ==
    /\ loaded
    /\ kOp.op = "none"
    /\ blob_to_polynomial(kBlob).ret = C_KZG_OK
    /\ \E g_metal_handle \in {NULL, 1}, allocOk \in BOOLEAN,
          logn \in {LogFieldElementsPerBlob, LogFieldElementsPerExtBlob} :
         /\ g_metal_handle = NULL => allocOk
         /\ LET n == 2 ^ logn
                in == [i \in 0..(n - 1) |->
                         IF i < FieldElementsPerBlob
                           THEN blob_to_polynomial(kBlob).poly[i] ELSE 0] @@ <<>>
                r == gpu_fr_fft(in, n, kSetup, g_metal_handle, allocOk, allocOk)
            IN kOp' = [op |-> "gpu_fr_fft",
                       args |-> [g_metal_handle |-> g_metal_handle, n |-> n,
                                 allocOk |-> allocOk],
                       ret |-> r.ret, out |-> r.out,
                       reference |-> fr_fft(kSetup, in, logn)]
    /\ UNCHANGED <<kSetup, kBlob, kCommitment, kSamples, kProofs>>
    /\ UNCHANGED <<goVars, setVars, metalVars, sharedVars, grVars, gpuVars>>

\* gpu_compute_cells_and_kzg_proofs on the blob, next to
\* compute_cells_and_kzg_proofs on the same blob.
KzgGpuComputeCellsAndKzgProofs ==
    /\ loaded
    /\ kOp.op = "none"
    /\ \E g_metal_handle \in {NULL, 1}, initOk \in BOOLEAN, gpuOk \in BOOLEAN :
         /\ g_metal_handle # NULL => initOk
         /\ (g_metal_handle = NULL /\ ~initOk) => gpuOk
         /\ kOp' = [op |-> "gpu_compute_cells_and_kzg_proofs",
                    args |-> [g_metal_handle |-> g_metal_handle, initOk |-> initOk,
                              gpuOk |-> gpuOk],
                    result |-> gpu_compute_cells_and_kzg_proofs(
                                   kSetup, kBlob, g_metal_handle, initOk, gpuOk),
                    reference |-> compute_cells_and_kzg_proofs(kSetup, kBlob)]
    /\ UNCHANGED <<kSetup, kBlob, kCommitment, kSamples, kProofs>>
    /\ UNCHANGED <<goVars, setVars, metalVars, sharedVars, grVars, gpuVars>>

KzgIdle ==
    /\ kSetup = <<>>
    /\ kBlob = <<>>
    /\ kCommitment = 0
    /\ kSamples = <<>>
    /\ kProofs = <<>>
    /\ kOp = [op |-> "none"]

\* The state after LoadTrustedSetup has returned nil.
GoLoaded ==
    /\ loaded = TRUE
    /\ settings = "loaded"
    /\ goCall = NoCall
    /\ events = <<"load">>
    /\ calls = 0

KzgInit ==
    /\ \E tau \in Taus : kSetup = TrustedSetup(tau)
    /\ kBlob \in Blobs
    /\ kCommitment = 0
    /\ kSamples = <<>>
    /\ kProofs = <<>>
    /\ kOp = [op |-> "none"]

KzgNext ==
    \/ KzgBlobToKZGCommitment
    \/ KzgComputeKZGProof
    \/ KzgVerifyKZGProof
    \/ KzgComputeBlobKZGProof
    \/ KzgVerifyBlobKZGProof
    \/ KzgVerifyBlobKZGProofBatch
    \/ KzgGetSamplesAndProofs
    \/ KzgRecoverSamples
    \/ KzgVerifySampleProof
    \/ KzgGpuFrFft
    \/ KzgGpuComputeCellsAndKzgProofs

----------------------------------------------------------------------------
(***************************************************************************)
(* Readers of one loaded KZGSettings.  Each reader runs one operation that *)
(* takes the settings as const KZGSettings *s: serialize_settings, cell_at *)
(* or mut_cell_at, or the copy of the roots of unity in gpu_fr_fft.  The   *)
(* readers' steps interleave freely; no lock is taken.                     *)
(***************************************************************************)

\* The number of readers.
NumReaders == 2

Readers == 1..NumReaders

\* cell_at and mut_cell_at: the offset of the cell from the start of cells.
cell_at(cells, index, s) == cells + index * s.bytes_per_cell

mut_cell_at(cells, index, s) == cells + index * s.bytes_per_cell

\* gpu_fr_fft's i-th read of the settings: s->roots_of_unity[i * roots_stride].
RootOfUnityAt(s, h, i, n) ==
    LET roots_stride == FIELD_ELEMENTS_PER_EXT_BLOB \div n
    IN MemRead(Deref(h, s.roots_of_unity), i * roots_stride * SizeofFr, SizeofFr)

\* A reader that has not started, and the start of an operation.
IdleReader == [op |-> "idle"]

StartReader(op, arg, s) ==
    CASE op = "serialize_settings" ->
           \* *out_len = 0, total_size, c_kzg_malloc (arg: it succeeds)
           IF arg
             THEN [op |-> op, arg |-> arg, pc |-> 1, done |-> FALSE,
                   st |-> [b |-> Uninit(compute_serialized_size(s)), offset |-> 0,
                           ub |-> FALSE]]
             ELSE [op |-> op, arg |-> arg, pc |-> 0, done |-> TRUE,
                   res |-> [ret |-> C_KZG_MALLOC, bytes |-> <<>>, out_len |-> 0]]
      [] op \in {"cell_at", "mut_cell_at"} ->
           [op |-> op, arg |-> arg, pc |-> 0, done |-> FALSE]
      [] op = "gpu_fr_fft" ->
           [op |-> op, arg |-> arg, pc |-> 0, done |-> FALSE, gpu_roots |-> <<>>]

\* The settings after a step of a reader: every operation takes them as
\* const KZGSettings *s and assigns to no field.
SettingsAfterStep_ScratchSizeCleared(rdr, s) ==
    IF rdr.op = "serialize_settings" /\ rdr.pc = 12
      THEN [s EXCEPT !.scratch_size = 0] ELSE s

SettingsAfterStep(rdr, s) == s

\* The next step of a reader that has started: its new state.
ReaderStep(rdr, s, h) ==
    CASE rdr.op = "serialize_settings" ->
           IF rdr.pc <= 12
             THEN [rdr EXCEPT !.st = WriteStep(rdr.st, s, h, rdr.pc), !.pc = @ + 1]
             ELSE \* assert(total_size == offset); *out_len = total_size
                  [op |-> rdr.op, arg |-> rdr.arg, pc |-> rdr.pc, done |-> TRUE,
                   res |-> [ret |-> C_KZG_OK, bytes |-> rdr.st.b,
                            out_len |-> compute_serialized_size(s)]]
      [] rdr.op = "cell_at" ->
           [op |-> rdr.op, arg |-> rdr.arg, pc |-> 1, done |-> TRUE,
            res |-> cell_at(0, rdr.arg, s)]
      [] rdr.op = "mut_cell_at" ->
           [op |-> rdr.op, arg |-> rdr.arg, pc |-> 1, done |-> TRUE,
            res |-> mut_cell_at(0, rdr.arg, s)]
      [] rdr.op = "gpu_fr_fft" ->
           IF rdr.pc < rdr.arg
             THEN [rdr EXCEPT
                     !.gpu_roots = Append(@, RootOfUnityAt(s, h, rdr.pc, rdr.arg)),
                     !.pc = @ + 1]
             ELSE [op |-> rdr.op, arg |-> rdr.arg, pc |-> rdr.pc, done |-> TRUE,
                   res |-> rdr.gpu_roots]

\* What the operation of a reader returns when it runs alone on s.
RunAlone(rdr, s, h) ==
    CASE rdr.op = "serialize_settings" ->
           LET r == serialize_settings(s, h, rdr.arg)
           IN [ret |-> r.ret, bytes |-> r.bytes, out_len |-> r.out_len]
      [] rdr.op = "cell_at" -> rdr.arg * s.bytes_per_cell
      [] rdr.op = "mut_cell_at" -> rdr.arg * s.bytes_per_cell
      [] rdr.op = "gpu_fr_fft" ->
           [i \in 1..rdr.arg |-> RootOfUnityAt(s, h, i - 1, rdr.arg)]

\* The operations a reader may start, with their arguments.
ReaderCalls ==
    ({"serialize_settings"} \X BOOLEAN)
    \cup ({"cell_at", "mut_cell_at"} \X {CELLS_PER_EXT_BLOB - 1})
    \cup ({"gpu_fr_fft"} \X {2 ^ k : k \in 0..1})

ReaderStart(r) ==
    /\ rd[r].op = "idle"
    /\ \E c \in ReaderCalls : rd' = [rd EXCEPT ![r] = StartReader(c[1], c[2], src)]
    /\ UNCHANGED setVars
    /\ UNCHANGED <<goVars, kzgVars, metalVars, grVars, gpuVars>>

ReaderRun(r) ==
    /\ rd[r].op # "idle"
    /\ ~rd[r].done
    /\ rd' = [rd EXCEPT ![r] = ReaderStep(rd[r], src, heap)]
    /\ src' = SettingsAfterStep(rd[r], src)
    /\ UNCHANGED <<platform, heap, out, buf, out_len, ub, lastOp, nFree, desDone>>
    /\ UNCHANGED <<goVars, kzgVars, metalVars, grVars, gpuVars>>

SharedIdle == rd = <<>>

\* The settings the readers share: without precomputation and tables, and
\* with tables of one byte a row.
SharedConfigs ==
    {[wbits |-> 0, scratch_size |-> 0, table_size |-> 0, withTables |-> FALSE],
     [wbits |-> 8, scratch_size |-> 300, table_size |-> 1, withTables |-> TRUE]}

\* A loaded settings (with its cell size) and readers that have not started.
SharedInit ==
    /\ platform \in {p \in Platforms : p.wordsize = 8}
    /\ \E seed \in {0}, c \in SharedConfigs :
         /\ heap = LoadedHeap(seed, c.wbits, c.table_size, c.withTables)
         /\ src = LoadedSettings(c.wbits, c.scratch_size, c.table_size, c.withTables)
                    @@ [bytes_per_cell |-> FIELD_ELEMENTS_PER_CELL * SizeofFr]
    /\ out = init_settings
    /\ buf = NULL
    /\ out_len = 0
    /\ ub = FALSE
    /\ lastOp = [op |-> "none"]
    /\ nFree = 0
    /\ desDone = FALSE
    /\ rd = [r \in Readers |-> IdleReader]

SharedNext == \E r \in Readers : ReaderStart(r) \/ ReaderRun(r)

----------------------------------------------------------------------------
(***************************************************************************)
(* The Go binding called from several goroutines.  The binding holds no    *)
(* lock: a call is the statements of its function, one step each, and the  *)
(* steps of the goroutines interleave.                                     *)
(***************************************************************************)

NumGoroutines == 2

Goroutines == 1..NumGoroutines

\* A goroutine that is in no call of the binding.
NoGoroutineCall == [op |-> "none", pc |-> "done"]

\* The calls the goroutines make.
GoroutineCalls == {"LoadTrustedSetup", "FreeTrustedSetup", "BlobToKZGCommitment"}

\* A panic ends the program.
Panicked == \E g \in Goroutines : gr[g].pc = "panic"

\* The goroutine calls a function of the binding.
GoroutineCall(g) ==
    /\ ~Panicked
    /\ gr[g].pc = "done"
    /\ calls < MaxCalls
    /\ calls' = calls + 1
    /\ \E op \in GoroutineCalls : gr' = [gr EXCEPT ![g] = [op |-> op, pc |-> "check"]]
    /\ UNCHANGED <<loaded, settings, goCall, events>>
    /\ UNCHANGED <<setVars, kzgVars, metalVars, sharedVars, gpuVars>>

\* if loaded { panic } in the loads, if !loaded { panic } elsewhere.
CheckLoaded(g) ==
    /\ ~Panicked
    /\ gr[g].pc = "check"
    /\ LET refused == IF gr[g].op \in Loads THEN loaded ELSE ~loaded
       IN gr' = [gr EXCEPT ![g].pc = IF refused THEN "panic" ELSE "call"]
    /\ UNCHANGED goVars
    /\ UNCHANGED <<setVars, kzgVars, metalVars, sharedVars, gpuVars>>

\* The C function is entered with &settings.
EnterC(g) ==
    /\ ~Panicked
    /\ gr[g].pc = "call"
    /\ gr' = [gr EXCEPT ![g].pc = "in_c"]
    /\ UNCHANGED goVars
    /\ UNCHANGED <<setVars, kzgVars, metalVars, sharedVars, gpuVars>>

\* The C function returns: load_trusted_setup has loaded the settings when it
\* returns OK, free_trusted_setup has freed them, blob_to_kzg_commitment has
\* read them.
LeaveC(g) ==
    /\ ~Panicked
    /\ gr[g].pc = "in_c"
    /\ \E ret \in {C_KZG_OK, C_KZG_BADARGS} :
         CASE gr[g].op \in Loads ->
                IF ret = C_KZG_OK
                  THEN /\ settings' = "loaded"
                       /\ events' = Append(events, "load")
                       /\ gr' = [gr EXCEPT ![g].pc = "flag"]
                  ELSE /\ gr' = [gr EXCEPT ![g].pc = "done"]
                       /\ UNCHANGED <<settings, events>>
           [] gr[g].op = "FreeTrustedSetup" ->
                /\ settings' = "freed"
                /\ events' = Append(events, "free")
                /\ gr' = [gr EXCEPT ![g].pc = "flag"]
           [] OTHER ->
                /\ gr' = [gr EXCEPT ![g].pc = "done"]
                /\ UNCHANGED <<settings, events>>
    /\ UNCHANGED <<loaded, goCall, calls>>
    /\ UNCHANGED <<setVars, kzgVars, metalVars, sharedVars, gpuVars>>

\* loaded = true after a load, loaded = false after the free.
SetLoaded(g) ==
    /\ ~Panicked
    /\ gr[g].pc = "flag"
    /\ loaded' = (gr[g].op \in Loads)
    /\ gr' = [gr EXCEPT ![g].pc = "done"]
    /\ UNCHANGED <<settings, goCall, events, calls>>
    /\ UNCHANGED <<setVars, kzgVars, metalVars, sharedVars, gpuVars>>

GoroutinesIdle == gr = <<>>

GoroutinesInit ==
    /\ GoInit
    /\ gr = [g \in Goroutines |-> NoGoroutineCall]

GoroutinesNext ==
    \E g \in Goroutines :
        \/ GoroutineCall(g)
        \/ CheckLoaded(g)
        \/ EnterC(g)
        \/ LeaveC(g)
        \/ SetLoaded(g)

----------------------------------------------------------------------------
(***************************************************************************)
(* One dispatch of a kernel, thread by thread (kzg_kernels.metal).  Every  *)
(* read and every write of the device buffer is a step of its own, and the *)
(* threads of the grid take their steps in any order.  What a thread       *)
(* computes in its registers belongs to its next access of the buffer.     *)
(***************************************************************************)

\* The largest buffer dispatched on, as a power of two.
LogKernelMaxFft == 3

KernelSizes == {2 ^ k : k \in 1..LogKernelMaxFft}

\* The buffers dispatched on: element i holds the value seed + 5 * i.
MaxKernelSeed == 2

KernelBuffer(n, seed) ==
    [i \in 1..n |-> ToMontgomery((seed + 5 * (i - 1)) % MetalModulus)] @@ <<>>

\* roots_contiguous of metal_fr_fft: the n roots at stride MetalMaxFft / n.
RootsContiguous(n) ==
    [i \in 1..n |-> metal_roots_of_unity[(i - 1) * (MetalMaxFft \div n) + 1]] @@ <<>>

\* What a read past the end of a buffer may yield; a write past the end
\* leaves the buffer as it is.
OutOfRangeValues == {ValueLimbs(0), ValueLimbs(1)}

ReadAt(buffer, idx) ==
    IF idx < Len(buffer) THEN {buffer[idx + 1]} ELSE OutOfRangeValues

WriteAt(buffer, idx, v) ==
    IF idx < Len(buffer) THEN [buffer EXCEPT ![idx + 1] = v] ELSE buffer

\* A thread before its first step.
ThreadStart ==
    [pc |-> "start", i |-> 0, j |-> 0, root_idx |-> 0,
     a |-> ValueLimbs(0), b |-> ValueLimbs(0), writes |-> {}]

Threads == DOMAIN thr

AllDone == \A gid \in Threads : thr[gid].pc = "done"

\* ---- fft_radix2_stage ----

\* The indices thread gid computes: its elements i and j and its twiddle.
ButterflyIndices_Overlapping(stage, roots_stride_base, gid) ==
    LET half_n == 2 ^ stage
        block_idx == gid \div half_n
        idx_in_block == gid % half_n
        i == block_idx * half_n + idx_in_block
    IN [i |-> i, j |-> i + half_n,
        root_idx |-> idx_in_block * (roots_stride_base \div (2 ^ stage))]

ButterflyIndices(stage, roots_stride_base, gid) ==
    LET half_n == 2 ^ stage
        block_size == half_n * 2
        block_idx == gid \div half_n
        idx_in_block == gid % half_n
        i == block_idx * block_size + idx_in_block
    IN [i |-> i, j |-> i + half_n,
        root_idx |-> idx_in_block * (roots_stride_base \div (2 ^ stage))]

\* The guard, the indices, and Fr a = data[i].
StageLoadA(gid) ==
    /\ kern.name = "fft_radix2_stage"
    /\ thr[gid].pc = "start"
    /\ IF gid >= kern.n \div 2
         THEN thr' = [thr EXCEPT ![gid].pc = "done"]
         ELSE \E x \in {ButterflyIndices(kern.stage, kern.roots_stride_base, gid)} :
              \E v \in ReadAt(dataBuffer, x.i) :
                thr' = [thr EXCEPT ![gid] = [@ EXCEPT !.pc = "load_b", !.i = x.i, !.j = x.j,
                                                     !.root_idx = x.root_idx, !.a = v]]
    /\ UNCHANGED <<kern, dataBuffer>>
    /\ UNCHANGED notThreadVars

\* Fr b = data[j].
StageLoadB(gid) ==
    /\ kern.name = "fft_radix2_stage"
    /\ thr[gid].pc = "load_b"
    /\ \E v \in ReadAt(dataBuffer, thr[gid].j) :
         thr' = [thr EXCEPT ![gid] = [@ EXCEPT !.pc = "store_i", !.b = v]]
    /\ UNCHANGED <<kern, dataBuffer>>
    /\ UNCHANGED notThreadVars

\* wb = fr_mul(w, b) with w = roots[root_idx]; data[i] = fr_add(a, wb).
StageStoreI(gid) ==
    /\ kern.name = "fft_radix2_stage"
    /\ thr[gid].pc = "store_i"
    /\ \E w \in ReadAt(kern.roots, thr[gid].root_idx) :
       \E wb \in {metal_fr_mul(w, thr[gid].b)} :
         /\ dataBuffer' = WriteAt(dataBuffer, thr[gid].i, metal_fr_add(thr[gid].a, wb))
         /\ thr' = [thr EXCEPT ![gid] = [@ EXCEPT !.pc = "store_j", !.b = wb,
                                                 !.writes = @ \cup {thr[gid].i}]]
    /\ UNCHANGED kern
    /\ UNCHANGED notThreadVars

\* data[j] = fr_sub(a, wb).
StageStoreJ(gid) ==
    /\ kern.name = "fft_radix2_stage"
    /\ thr[gid].pc = "store_j"
    /\ dataBuffer' = WriteAt(dataBuffer, thr[gid].j, metal_fr_sub(thr[gid].a, thr[gid].b))
    /\ thr' = [thr EXCEPT ![gid] = [@ EXCEPT !.pc = "done",
                                            !.writes = @ \cup {thr[gid].j}]]
    /\ UNCHANGED kern
    /\ UNCHANGED notThreadVars

\* ---- bit_reversal ----

\* Whether thread gid swaps data[gid] and data[rev].
Swaps_Both(gid, rev, n) == gid # rev /\ rev < n

Swaps(gid, rev, n) == gid < rev /\ rev < n

\* The guard, rev, the test, and Fr temp = data[gid].
ReversalLoadTemp(gid) ==
    /\ kern.name = "bit_reversal"
    /\ thr[gid].pc = "start"
    /\ \E rev \in {BitReversedIndex(0, gid, kern.log_n)} :
         IF gid < kern.n /\ Swaps(gid, rev, kern.n)
           THEN \E v \in ReadAt(dataBuffer, gid) :
                  thr' = [thr EXCEPT ![gid] = [@ EXCEPT !.pc = "load_rev", !.i = gid,
                                                       !.j = rev, !.a = v]]
           ELSE thr' = [thr EXCEPT ![gid] = [@ EXCEPT !.pc = "done", !.i = gid, !.j = rev]]
    /\ UNCHANGED <<kern, dataBuffer>>
    /\ UNCHANGED notThreadVars

\* The read of data[rev] in data[gid] = data[rev].
ReversalLoadRev(gid) ==
    /\ kern.name = "bit_reversal"
    /\ thr[gid].pc = "load_rev"
    /\ \E v \in ReadAt(dataBuffer, thr[gid].j) :
         thr' = [thr EXCEPT ![gid] = [@ EXCEPT !.pc = "store_gid", !.b = v]]
    /\ UNCHANGED <<kern, dataBuffer>>
    /\ UNCHANGED notThreadVars

\* The write of data[gid] in data[gid] = data[rev].
ReversalStoreGid(gid) ==
    /\ kern.name = "bit_reversal"
    /\ thr[gid].pc = "store_gid"
    /\ dataBuffer' = WriteAt(dataBuffer, thr[gid].i, thr[gid].b)
    /\ thr' = [thr EXCEPT ![gid] = [@ EXCEPT !.pc = "store_rev",
                                            !.writes = @ \cup {thr[gid].i}]]
    /\ UNCHANGED kern
    /\ UNCHANGED notThreadVars

\* data[rev] = temp.
ReversalStoreRev(gid) ==
    /\ kern.name = "bit_reversal"
    /\ thr[gid].pc = "store_rev"
    /\ dataBuffer' = WriteAt(dataBuffer, thr[gid].j, thr[gid].a)
    /\ thr' = [thr EXCEPT ![gid] = [@ EXCEPT !.pc = "done",
                                            !.writes = @ \cup {thr[gid].j}]]
    /\ UNCHANGED kern
    /\ UNCHANGED notThreadVars

\* The host dispatches bit_reversal on the buffer once more, after the first
\* dispatch has completed.
DispatchAgain ==
    /\ kern.name = "bit_reversal"
    /\ kern.pass = 1
    /\ AllDone
    /\ kern' = [kern EXCEPT !.pass = 2, !.first = dataBuffer]
    /\ thr' = [gid \in Threads |-> ThreadStart]
    /\ UNCHANGED dataBuffer
    /\ UNCHANGED notThreadVars

ThreadsIdle ==
    /\ kern = [name |-> "none"]
    /\ dataBuffer = <<>>
    /\ thr = <<>>

\* A dispatch of bit_reversal with n threads, or of one stage of the
\* transform with n / 2 threads, as metal_fr_fft dispatches them.
ThreadsInit ==
    \E n \in KernelSizes, seed \in 1..MaxKernelSeed :
      /\ dataBuffer = KernelBuffer(n, seed)
      /\ \/ /\ kern = [name |-> "bit_reversal", n |-> n, log_n |-> log2_uint(n),
                       stage |-> 0, roots_stride_base |-> 0, roots |-> <<>>,
                       pass |-> 1, input |-> dataBuffer, first |-> dataBuffer]
            /\ thr = [gid \in 0..(n - 1) |-> ThreadStart]
         \/ \E stage \in 0..(log2_uint(n) - 1) :
              /\ kern = [name |-> "fft_radix2_stage", n |-> n, log_n |-> log2_uint(n),
                         stage |-> stage, roots_stride_base |-> n \div 2,
                         roots |-> RootsContiguous(n),
                         pass |-> 1, input |-> dataBuffer, first |-> dataBuffer]
              /\ thr = [gid \in 0..(n \div 2 - 1) |-> ThreadStart]

ThreadsNext ==
    \/ \E gid \in Threads :
        \/ StageLoadA(gid)
        \/ StageLoadB(gid)
        \/ StageStoreI(gid)
        \/ StageStoreJ(gid)
        \/ ReversalLoadTemp(gid)
        \/ ReversalLoadRev(gid)
        \/ ReversalStoreGid(gid)
        \/ ReversalStoreRev(gid)
    \/ DispatchAgain

----------------------------------------------------------------------------
(***************************************************************************)
(* The kernels' field arithmetic, one function at a time: fr_add, fr_sub   *)
(* and fr_mul on every pair of canonical field elements, and adc, mul64    *)
(* and mac on limbs of 2 * WideHalfBits bits, wide enough for the sum of   *)
(* mul64's two middle products to wrap.                                    *)
(***************************************************************************)

\* The canonical field elements: the values below the modulus, as limbs.
CanonicalElements == {ValueLimbs(v) : v \in 0..(MetalModulus - 1)}

\* The width of the halves of the limbs the helpers are called on.
WideHalfBits == 2

WideBase == 2 ^ (2 * WideHalfBits)

WideLimbs == 0..(WideBase - 1)

\* The third argument of mac and the carry of adc: the ends of the range.
WideAddends == {0, 1, WideBase - 2, WideBase - 1}

FrAdd ==
    /\ fOp = "none"
    /\ fIn.kind = "elements"
    /\ fOut' = metal_fr_add(fIn.a, fIn.b)
    /\ fOp' = "fr_add"
    /\ UNCHANGED fIn
    /\ UNCHANGED notFieldVars

FrSub ==
    /\ fOp = "none"
    /\ fIn.kind = "elements"
    /\ fOut' = metal_fr_sub(fIn.a, fIn.b)
    /\ fOp' = "fr_sub"
    /\ UNCHANGED fIn
    /\ UNCHANGED notFieldVars

FrMul ==
    /\ fOp = "none"
    /\ fIn.kind = "elements"
    /\ fOut' = metal_fr_mul(fIn.a, fIn.b)
    /\ fOp' = "fr_mul"
    /\ UNCHANGED fIn
    /\ UNCHANGED notFieldVars

\* adc(a, b, carry) with the carry of an earlier adc (0 or 1): <<sum, carry>>.
Adc ==
    /\ fOp = "none"
    /\ fIn.kind = "limbs"
    /\ fIn.c \in {0, 1}
    /\ \E r \in {adc_bits(fIn.a, fIn.b, fIn.c, WideHalfBits)} : fOut' = <<r.sum, r.carry>>
    /\ fOp' = "adc"
    /\ UNCHANGED fIn
    /\ UNCHANGED notFieldVars

\* mul64(a, b, hi): <<lo, hi>>.
Mul64 ==
    /\ fOp = "none"
    /\ fIn.kind = "limbs"
    /\ \E r \in {mul64_bits(fIn.a, fIn.b, WideHalfBits)} : fOut' = <<r.lo, r.hi>>
    /\ fOp' = "mul64"
    /\ UNCHANGED fIn
    /\ UNCHANGED notFieldVars

\* mac(a, b, c, hi) with hi = 0, as fr_mul calls it: <<lo, hi>>.
Mac ==
    /\ fOp = "none"
    /\ fIn.kind = "limbs"
    /\ \E r \in {mac_bits(fIn.a, fIn.b, fIn.c, 0, WideHalfBits)} : fOut' = <<r.lo, r.hi>>
    /\ fOp' = "mac"
    /\ UNCHANGED fIn
    /\ UNCHANGED notFieldVars

FieldIdle ==
    /\ fIn = [kind |-> "none"]
    /\ fOut = <<>>
    /\ fOp = "none"

FieldInit ==
    /\ \/ \E a \in CanonicalElements, b \in CanonicalElements :
            fIn = [kind |-> "elements", a |-> a, b |-> b]
       \/ \E a \in WideLimbs, b \in WideLimbs, c \in WideAddends :
            fIn = [kind |-> "limbs", a |-> a, b |-> b, c |-> c]
    /\ fOut = <<>>
    /\ fOp = "none"

FieldNext ==
    \/ FrAdd
    \/ FrSub
    \/ FrMul
    \/ Adc
    \/ Mul64
    \/ Mac

----------------------------------------------------------------------------
(***************************************************************************)
(* metal_fr_fft_batch (metal_runtime.m): the transforms of a batch, one    *)
(* after the other.                                                        *)
(***************************************************************************)

\* The largest batch.
MaxBatchFft == 2

\* The loop from round i on: the status, what is left in the out arrays, and
\* the number of transforms attempted.  bufferFails[i + 1] is the outcome of
\* the buffer allocations of round i.
RECURSIVE metal_fr_fft_batch(_, _, _, _, _, _, _, _, _)
metal_fr_fft_batch(out_, in, i, batch_count, n, roots, roots_stride, inverse, bufferFails) ==
    IF i >= batch_count THEN [ret |-> C_KZG_OK, out |-> out_, attempted |-> i]
    ELSE With(metal_fr_fft(out_[i + 1], in[i + 1], n, roots, roots_stride, inverse,
                           bufferFails[i + 1]),
              LAMBDA r :
                IF r.ret # C_KZG_OK
                  THEN [ret |-> r.ret, out |-> [out_ EXCEPT ![i + 1] = r.out],
                        attempted |-> i + 1]
                  ELSE metal_fr_fft_batch([out_ EXCEPT ![i + 1] = r.out], in, i + 1,
                                          batch_count, n, roots, roots_stride, inverse,
                                          bufferFails))

\* The caller's batch of transforms of bIn into bOut.
MetalFrFftBatch ==
    /\ bOp.op = "none"
    /\ \E bufferFails \in [1..Len(bIn) -> BOOLEAN] :
       \E r \in {metal_fr_fft_batch(bOut, bIn, 0, Len(bIn), bOp.n,
                                    IF bOp.inverse THEN metal_reverse_roots_of_unity
                                    ELSE metal_roots_of_unity,
                                    MetalMaxFft \div bOp.n, bOp.inverse,
                                    bufferFails @@ <<>>)} :
         /\ bOut' = r.out
         /\ bOp' = [bOp EXCEPT !.op = "batch", !.ret = r.ret, !.attempted = r.attempted,
                               !.bufferFails = bufferFails @@ <<>>, !.outBefore = bOut]
    /\ UNCHANGED bIn
    /\ UNCHANGED notBatchVars

BatchIdle ==
    /\ bIn = <<>>
    /\ bOut = <<>>
    /\ bOp = [op |-> "idle"]

\* The batches: batch_count arrays of n elements.
RECURSIVE BatchesOf(_, _)
BatchesOf(n, batch_count) ==
    IF batch_count = 0 THEN {<<>>}
    ELSE {<<KernelBuffer(n, seed)>> \o rest :
            seed \in 1..MaxKernelSeed, rest \in BatchesOf(n, batch_count - 1)}

BatchInit ==
    \E n \in MetalSizes, batch_count \in 0..MaxBatchFft, inverse \in BOOLEAN :
      /\ bIn \in BatchesOf(n, batch_count)
      /\ bOut = [i \in 1..batch_count |-> [k \in 1..n |-> ValueLimbs(0)]]
      /\ bOp = [op |-> "none", n |-> n, inverse |-> inverse, ret |-> "none",
                attempted |-> 0, bufferFails |-> <<>>, outBefore |-> <<>>]

BatchNext == MetalFrFftBatch

----------------------------------------------------------------------------
(***************************************************************************)
(* The accelerator's global handle (metal_poc/MetalKZGAccelerator):        *)
(* init_metal_acceleration, cleanup_metal_acceleration and the start of    *)
(* gpu_compute_cells_and_kzg_proofs, called from several threads.  The     *)
(* functions take no lock; every read and write of g_metal_handle and      *)
(* every call of metal_kzg_init and metal_kzg_cleanup is a step.           *)
(***************************************************************************)

NumCallers == 2

Callers == 1..NumCallers

\* metal_kzg_init is called at most this many times.
MaxInits == 2

NotCalling == [fn |-> "none", pc |-> "idle", h |-> NULL]

\* Caller c moves to pc (and keeps or takes a handle in its local).
Goto(c, pc) == caller' = [caller EXCEPT ![c].pc = pc]

Return(c) == caller' = [caller EXCEPT ![c] = NotCalling]

\* The return of init_metal_acceleration: to its caller's caller, or back
\* into gpu_compute_cells_and_kzg_proofs, which falls back to the CPU when
\* the result is not 0.
ReturnFromInit(c, result) ==
    IF caller[c].fn = "gpu_compute_cells_and_kzg_proofs"
      THEN Goto(c, IF result = 0 THEN "compute" ELSE "fallback")
      ELSE Return(c)

CallInit(c) ==
    /\ caller[c].pc = "idle"
    /\ caller' = [caller EXCEPT ![c] = [fn |-> "init_metal_acceleration",
                                        pc |-> "check", h |-> NULL]]
    /\ UNCHANGED <<gHandle, contexts, lost, nInit>>
    /\ UNCHANGED notHandleVars

CallCleanup(c) ==
    /\ caller[c].pc = "idle"
    /\ caller' = [caller EXCEPT ![c] = [fn |-> "cleanup_metal_acceleration",
                                        pc |-> "cleanup_check", h |-> NULL]]
    /\ UNCHANGED <<gHandle, contexts, lost, nInit>>
    /\ UNCHANGED notHandleVars

CallGpuCompute(c) ==
    /\ caller[c].pc = "idle"
    /\ caller' = [caller EXCEPT ![c] = [fn |-> "gpu_compute_cells_and_kzg_proofs",
                                        pc |-> "outer_check", h |-> NULL]]
    /\ UNCHANGED <<gHandle, contexts, lost, nInit>>
    /\ UNCHANGED notHandleVars

\* gpu_compute_cells_and_kzg_proofs: if (g_metal_handle == NULL), then the
\* call of init_metal_acceleration.
OuterCheck(c) ==
    /\ caller[c].pc = "outer_check"
    /\ Goto(c, IF gHandle = NULL THEN "check" ELSE "compute")
    /\ UNCHANGED <<gHandle, contexts, lost, nInit>>
    /\ UNCHANGED notHandleVars

\* init_metal_acceleration: if (g_metal_handle != NULL) return 0.
CheckHandle(c) ==
    /\ caller[c].pc = "check"
    /\ IF gHandle # NULL THEN ReturnFromInit(c, 0) ELSE Goto(c, "init")
    /\ UNCHANGED <<gHandle, contexts, lost, nInit>>
    /\ UNCHANGED notHandleVars

\* The call metal_kzg_init(): a new context, or NULL.
KzgInitCall(c) ==
    /\ caller[c].pc = "init"
    /\ nInit < MaxInits
    /\ nInit' = nInit + 1
    /\ \E created \in BOOLEAN :
         IF created
           THEN /\ contexts' = contexts \cup {nInit + 1}
                /\ caller' = [caller EXCEPT ![c].pc = "assign", ![c].h = nInit + 1]
           ELSE /\ contexts' = contexts
                /\ caller' = [caller EXCEPT ![c].pc = "assign", ![c].h = NULL]
    /\ UNCHANGED <<gHandle, lost>>
    /\ UNCHANGED notHandleVars

\* g_metal_handle = (the result of metal_kzg_init).
AssignHandle(c) ==
    /\ caller[c].pc = "assign"
    /\ gHandle' = caller[c].h
    /\ lost' = IF gHandle \in contexts /\ gHandle # caller[c].h
                 THEN lost \cup {gHandle} ELSE lost
    /\ Goto(c, "test")
    /\ UNCHANGED <<contexts, nInit>>
    /\ UNCHANGED notHandleVars

\* if (g_metal_handle == NULL) return -1; return 0.
TestHandle(c) ==
    /\ caller[c].pc = "test"
    /\ ReturnFromInit(c, IF gHandle = NULL THEN -1 ELSE 0)
    /\ UNCHANGED <<gHandle, contexts, lost, nInit>>
    /\ UNCHANGED notHandleVars

\* The rest of gpu_compute_cells_and_kzg_proofs, on the GPU or on the CPU.
Compute(c) ==
    /\ caller[c].pc \in {"compute", "fallback"}
    /\ Return(c)
    /\ UNCHANGED <<gHandle, contexts, lost, nInit>>
    /\ UNCHANGED notHandleVars

\* cleanup_metal_acceleration: if (g_metal_handle != NULL), and the argument
\* of metal_kzg_cleanup.
CleanupCheck(c) ==
    /\ caller[c].pc = "cleanup_check"
    /\ IF gHandle # NULL
         THEN caller' = [caller EXCEPT ![c].pc = "cleanup_delete", ![c].h = gHandle]
         ELSE Return(c)
    /\ UNCHANGED <<gHandle, contexts, lost, nInit>>
    /\ UNCHANGED notHandleVars

\* metal_kzg_cleanup(handle): delete ctx.
CleanupDelete(c) ==
    /\ caller[c].pc = "cleanup_delete"
    /\ contexts' = contexts \ {caller[c].h}
    /\ Goto(c, "cleanup_store")
    /\ UNCHANGED <<gHandle, lost, nInit>>
    /\ UNCHANGED notHandleVars

\* g_metal_handle = NULL.
CleanupStore(c) ==
    /\ caller[c].pc = "cleanup_store"
    /\ gHandle' = NULL
    /\ lost' = IF gHandle \in contexts THEN lost \cup {gHandle} ELSE lost
    /\ Return(c)
    /\ UNCHANGED <<contexts, nInit>>
    /\ UNCHANGED notHandleVars

HandleIdle ==
    /\ gHandle = NULL
    /\ caller = <<>>
    /\ contexts = {}
    /\ lost = {}
    /\ nInit = 0

HandleInit ==
    /\ gHandle = NULL
    /\ caller = [c \in Callers |-> NotCalling]
    /\ contexts = {}
    /\ lost = {}
    /\ nInit = 0

HandleNext ==
    \E c \in Callers :
        \/ CallInit(c)
        \/ CallCleanup(c)
        \/ CallGpuCompute(c)
        \/ OuterCheck(c)
        \/ CheckHandle(c)
        \/ KzgInitCall(c)
        \/ AssignHandle(c)
        \/ TestHandle(c)
        \/ Compute(c)
        \/ CleanupCheck(c)
        \/ CleanupDelete(c)
        \/ CleanupStore(c)

----------------------------------------------------------------------------
(***************************************************************************)
(* msm_accumulate (the kernels of metal_poc/benchmark_metal.c): every      *)
(* thread multiplies its point by its scalar and adds the product to       *)
(* result[0] under a spin lock.  The atomic operations on the mutex and    *)
(* the read and the write of result[0] are steps; the threads take them    *)
(* in any order.  A point is one lane of the float4, with values small     *)
(* enough for the float arithmetic to be exact.                            *)
(***************************************************************************)

NumMsmThreads == 3

MsmThreads == 0..(NumMsmThreads - 1)

\* scalar.low.x of the scalars, and result[0] at the dispatch.
MsmScalars == {3, 257}

MsmResults == {0, 5}

\* point * float(scalar.low.x & 0xFF).
MsmProduct(point, scalar) == point * (scalar % 256)

\* float4 point = points[index]; FieldElement scalar = scalars[index]; and
\* the product.
Multiply(t) ==
    /\ msm[t].pc = "start"
    /\ msm' = [msm EXCEPT ![t].pc = "spin",
                          ![t].product = MsmProduct(msmArgs.points[t], msmArgs.scalars[t])]
    /\ UNCHANGED <<msmArgs, mutex, msmResult>>
    /\ UNCHANGED notMsmVars

\* One round of while (atomic_exchange_explicit(mutex, 1, ...) == 1).
Acquire_Unconditional(t) ==
    /\ msm[t].pc = "spin"
    /\ mutex' = 1
    /\ msm' = [msm EXCEPT ![t].pc = "read"]
    /\ UNCHANGED <<msmArgs, msmResult>>
    /\ UNCHANGED notMsmVars

Acquire(t) ==
    /\ msm[t].pc = "spin"
    /\ mutex' = 1
    /\ msm' = IF mutex = 1 THEN msm ELSE [msm EXCEPT ![t].pc = "read"]
    /\ UNCHANGED <<msmArgs, msmResult>>
    /\ UNCHANGED notMsmVars

\* result[0] += product: the read.
ReadResult(t) ==
    /\ msm[t].pc = "read"
    /\ msm' = [msm EXCEPT ![t].pc = "write", ![t].sum = msmResult + msm[t].product]
    /\ UNCHANGED <<msmArgs, mutex, msmResult>>
    /\ UNCHANGED notMsmVars

\* result[0] += product: the write.
WriteResult(t) ==
    /\ msm[t].pc = "write"
    /\ msmResult' = msm[t].sum
    /\ msm' = [msm EXCEPT ![t].pc = "release"]
    /\ UNCHANGED <<msmArgs, mutex>>
    /\ UNCHANGED notMsmVars

\* atomic_store_explicit(mutex, 0, memory_order_release).
Release(t) ==
    /\ msm[t].pc = "release"
    /\ mutex' = 0
    /\ msm' = [msm EXCEPT ![t].pc = "done"]
    /\ UNCHANGED <<msmArgs, msmResult>>
    /\ UNCHANGED notMsmVars

MsmIdle ==
    /\ msmArgs = <<>>
    /\ mutex = 0
    /\ msmResult = 0
    /\ msm = <<>>

\* A dispatch of one thread per point.  The kernel does not set the mutex:
\* it finds what the host left in the buffer.
MsmInit ==
    /\ \E scalars \in [MsmThreads -> MsmScalars], result0 \in MsmResults :
         /\ msmArgs = [points |-> [t \in MsmThreads |-> t + 1], scalars |-> scalars,
                       result |-> result0]
         /\ msmResult = result0
    /\ mutex \in {0, 1}
    /\ msm = [t \in MsmThreads |-> [pc |-> "start", product |-> 0, sum |-> 0]]

MsmNext ==
    \E t \in MsmThreads :
        \/ Multiply(t)
        \/ Acquire(t)
        \/ ReadResult(t)
        \/ WriteResult(t)
        \/ Release(t)

GpuIdle == ThreadsIdle /\ FieldIdle /\ BatchIdle /\ HandleIdle /\ MsmIdle

----------------------------------------------------------------------------
(***************************************************************************)
(* Specifications.                                                         *)
(***************************************************************************)

GoSpecInit ==
    GoInit /\ SetIdle /\ KzgIdle /\ MetalIdle /\ SharedIdle /\ GoroutinesIdle /\ GpuIdle

SpecGo == GoSpecInit /\ [][GoNext]_vars

SetSpecInit ==
    SetInit /\ GoIdle /\ KzgIdle /\ MetalIdle /\ SharedIdle /\ GoroutinesIdle /\ GpuIdle

SpecSettings == SetSpecInit /\ [][SetNext]_vars

KzgSpecInit ==
    KzgInit /\ GoLoaded /\ SetIdle /\ MetalIdle /\ SharedIdle /\ GoroutinesIdle /\ GpuIdle

SpecKzg == KzgSpecInit /\ [][KzgNext]_vars

MetalSpecInit ==
    MetalInit /\ GoIdle /\ SetIdle /\ KzgIdle /\ SharedIdle /\ GoroutinesIdle /\ GpuIdle

SpecMetal == MetalSpecInit /\ [][MetalNext]_vars

SharedSpecInit ==
    SharedInit /\ GoIdle /\ KzgIdle /\ MetalIdle /\ GoroutinesIdle /\ GpuIdle

SpecShared == SharedSpecInit /\ [][SharedNext]_vars

GoroutinesSpecInit ==
    GoroutinesInit /\ SetIdle /\ KzgIdle /\ MetalIdle /\ SharedIdle /\ GpuIdle

SpecGoroutines == GoroutinesSpecInit /\ [][GoroutinesNext]_vars

\* The host's variables at their idle values.
HostIdle == GoIdle /\ SetIdle /\ KzgIdle /\ MetalIdle /\ SharedIdle /\ GoroutinesIdle

ThreadsSpecInit ==
    ThreadsInit /\ HostIdle /\ FieldIdle /\ BatchIdle /\ HandleIdle /\ MsmIdle

SpecThreads == ThreadsSpecInit /\ [][ThreadsNext]_vars

FieldSpecInit ==
    FieldInit /\ HostIdle /\ ThreadsIdle /\ BatchIdle /\ HandleIdle /\ MsmIdle

SpecField == FieldSpecInit /\ [][FieldNext]_vars

BatchSpecInit ==
    BatchInit /\ HostIdle /\ ThreadsIdle /\ FieldIdle /\ HandleIdle /\ MsmIdle

SpecBatch == BatchSpecInit /\ [][BatchNext]_vars

HandleSpecInit ==
    HandleInit /\ HostIdle /\ ThreadsIdle /\ FieldIdle /\ BatchIdle /\ MsmIdle

SpecHandle == HandleSpecInit /\ [][HandleNext]_vars

MsmSpecInit ==
    MsmInit /\ HostIdle /\ ThreadsIdle /\ FieldIdle /\ BatchIdle /\ HandleIdle

SpecMsm == MsmSpecInit /\ [][MsmNext]_vars

----------------------------------------------------------------------------
(***************************************************************************)
(* Claims about the Go binding (SpecGo).                                   *)
(***************************************************************************)

\* C1: an operation of the binding reaches the C library only when the global
\* settings are in the loaded state; called on uninitialized or freed settings
\* it panics and the C library is not called.
C1_OperationsRequireLoaded ==
    goCall.op \in Operations =>
        /\ goCall.cCalled => goCall.settingsAtEntry = "loaded"
        /\ goCall.settingsAtEntry # "loaded" =>
               goCall.outcome = "panic" /\ ~goCall.cCalled

\* C1 witness: an operation called after FreeTrustedSetup has panicked.
C1_Witness ==
    /\ goCall.op \in Operations
    /\ goCall.settingsAtEntry = "freed"
    /\ goCall.outcome = "panic"
    /\ Len(events) >= 2

\* Successful loads and frees alternate, starting with a load.
Alternates(ev) ==
    \A i \in 1..Len(ev) : ev[i] = (IF i % 2 = 1 THEN "load" ELSE "free")

C2_Step ==
    \* the flag mirrors the C object's state
    /\ loaded' <=> (settings' = "loaded")
    \* it becomes true only in a load that returned OK
    /\ (~loaded /\ loaded') => (goCall'.op \in Loads /\ goCall'.ret = C_KZG_OK)
    \* and false only in FreeTrustedSetup
    /\ (loaded /\ ~loaded') => goCall'.op = "FreeTrustedSetup"
    \* a load while loaded, and a free while not loaded, panic
    /\ (loaded /\ goCall'.op \in Loads) =>
           (goCall'.outcome = "panic" /\ ~goCall'.cCalled /\ events' = events)
    /\ (~loaded /\ goCall'.op = "FreeTrustedSetup") =>
           (goCall'.outcome = "panic" /\ ~goCall'.cCalled /\ events' = events)
    \* a load that returns non-OK leaves the state not loaded
    /\ (goCall'.op \in Loads /\ goCall'.cCalled /\ goCall'.ret # C_KZG_OK) => ~loaded'
    \* loads and frees alternate: no second free for one load
    /\ Alternates(events')

\* C2: the lifecycle uninitialized -> loaded -> freed: the flag is set only by a
\* load that returns OK and cleared only by FreeTrustedSetup, misuse panics, and
\* successful loads and frees strictly alternate.
C2_Lifecycle == [][C2_Step]_vars

\* C2 witness: a load, a free and a second load have succeeded.
C2_Witness == events = <<"load", "free", "load">> /\ loaded

----------------------------------------------------------------------------
(***************************************************************************)
(* Claims about settings.c (SpecSettings).                                 *)
(***************************************************************************)

\* The bytes handed to the last deserialize_settings.
LastData == DataOf(lastOp.variant, heap[buf].data)

\* The contents of the array a pointer field of s points to.
ArrayOf(s, h, field) == h[s[field]].data

\* The contents of the rows of a two-level array of s.
RowsOf(s, h, field) ==
    [i \in 1..CELLS_PER_EXT_BLOB |-> h[h[s[field]].data[i]].data]

\* t holds what s holds: the sizes, the six flat arrays, the columns and, with
\* precomputation, the tables; and t's arrays are there and were not freed.
SameSettings(s, t, h) ==
    /\ t.wbits = s.wbits
    /\ t.scratch_size = s.scratch_size
    /\ t.table_size = s.table_size
    /\ IsLoaded(t, h)
    /\ \A k \in 1..Len(PtrFields) :
         ArrayOf(t, h, PtrFields[k]) = ArrayOf(s, h, PtrFields[k])
    /\ RowsOf(t, h, "x_ext_fft_columns") = RowsOf(s, h, "x_ext_fft_columns")
    /\ s.wbits # 0 => RowsOf(t, h, "tables") = RowsOf(s, h, "tables")

\* The last step deserialized, with every allocation succeeding, exactly the
\* bytes serialize_settings wrote for the loaded settings src.
RoundTripped ==
    /\ lastOp.op = "deserialize"
    /\ lastOp.variant = <<"intact", 0>>
    /\ lastOp.failAt = 0
    /\ lastOp.srcLoaded

\* C3: serialize_settings(src) on loaded settings followed by
\* deserialize_settings on the bytes written, on the same platform and with no
\* allocation failing, returns OK, yields settings whose wbits, scratch_size,
\* table_size and every array equal those of src, and consumes exactly the
\* out_len bytes written.
C3_RoundTrip ==
    RoundTripped =>
        /\ lastOp.ret = C_KZG_OK
        /\ SameSettings(src, out, heap)
        /\ Owned(out, heap) \cap Owned(src, heap) = {}
        /\ lastOp.offset = out_len
        /\ lastOp.data_len = out_len
        /\ ~ub

\* C3 witness: settings with precomputed tables have gone through the round
\* trip and the copy holds its own tables.
C3_Witness ==
    /\ RoundTripped
    /\ lastOp.ret = C_KZG_OK
    /\ src.wbits # 0
    /\ out.tables # NULL
    /\ out.tables # src.tables

\* The header the data starts with is not this platform's version-1 header.
Incompatible(data) ==
    \/ SubSeq(data, 1, 4) # <<75, 90, 71, 0>>
    \/ data[5] # 1
    \/ data[6] # platform.endianness
    \/ data[7] # platform.wordsize

\* C4: deserialize_settings on data whose header has another magic, another
\* version, another endianness or another wordsize returns BADARGS, allocates
\* nothing and leaves *out in the init_settings state.
C4_HeaderRejected ==
    (lastOp.op = "deserialize" /\ lastOp.data_len >= SizeofHeader
       /\ Incompatible(LastData)) =>
        /\ lastOp.ret = C_KZG_BADARGS
        /\ lastOp.nalloc = 0
        /\ Len(heap) = lastOp.heapBefore
        /\ lastOp.trace = <<>>
        /\ out = init_settings
        /\ ~ub

\* C4 witness: data whose only fault is the wordsize byte has been rejected.
C4_Witness ==
    /\ lastOp.op = "deserialize"
    /\ lastOp.variant = <<"flip", SizeofHeader>>
    /\ Incompatible(LastData)
    /\ lastOp.ret = C_KZG_BADARGS

\* C5: deserialize_settings called with data_len smaller than the header
\* returns BADARGS.
C5_ShortInputIsBadArgs ==
    (lastOp.op = "deserialize" /\ lastOp.data_len < SizeofHeader) =>
        lastOp.ret = C_KZG_BADARGS

\* The position of the free of block p in a trace.
FreeIndex(trace, p) == CHOOSE i \in 1..Len(trace) : trace[i] = <<"free", p>>

\* The number of times block p is freed in a trace.
FreeCount(trace, p) ==
    Cardinality({i \in 1..Len(trace) : trace[i] = <<"free", p>>})

\* Every row of the two-level array arr is freed, and arr is read, before arr
\* itself is freed.
RowsBeforeOuter(trace, h, arr) ==
    arr # NULL =>
        /\ \A r \in Rows(h, arr) : FreeIndex(trace, r) < FreeIndex(trace, arr)
        /\ \A i \in 1..Len(trace) :
             trace[i] = <<"read", arr>> => i < FreeIndex(trace, arr)

C6_Step ==
    lastOp'.op = "free" /\ lastOp' # lastOp =>
      LET target == lastOp'.target
          before == lastOp'.before
          trace == lastOp'.trace
          after == IF target = "src" THEN src' ELSE out'
      IN \* free_settings(NULL) does nothing
         /\ target = "NULL" =>
              trace = <<>> /\ heap' = heap /\ src' = src /\ out' = out /\ ub' = ub
         \* loaded settings: every array is released exactly once, rows first
         /\ (target # "NULL" /\ lastOp'.wasLoaded) =>
              /\ \A p \in lastOp'.owned :
                   FreeCount(trace, p) = 1 /\ heap'[p].frees = 1
              /\ \A p \in (1..Len(heap)) \ lastOp'.owned :
                   heap'[p].frees = heap[p].frees
              /\ RowsBeforeOuter(trace, heap, before.x_ext_fft_columns)
              /\ RowsBeforeOuter(trace, heap, before.tables)
              /\ ~ub'
         \* the sizes are zeroed
         /\ target # "NULL" =>
              after.wbits = 0 /\ after.scratch_size = 0 /\ after.table_size = 0
         \* the init state: neither two-level array is dereferenced
         /\ (target # "NULL" /\ before = init_settings) =>
              /\ \A i \in 1..Len(trace) : trace[i][1] # "read"
              /\ trace = <<>>
              /\ heap' = heap
              /\ ~ub'

\* C6: free_settings on loaded settings releases every sub-array exactly once,
\* each row of x_ext_fft_columns and of tables before the outer arrays, and
\* sets wbits, scratch_size and table_size to 0; free_settings(NULL) does
\* nothing; on settings in the init_settings state it dereferences neither
\* x_ext_fft_columns nor tables.
C6_FreeSettings == [][C6_Step]_vars

\* C6 witness: loaded settings with tables have been freed, rows and all.
C6_Witness ==
    /\ lastOp.op = "free"
    /\ lastOp.target = "src"
    /\ lastOp.wasLoaded
    /\ lastOp.before.wbits # 0
    /\ Cardinality(lastOp.owned) = NumAllocs
    /\ \A p \in lastOp.owned : heap[p].frees = 1

----------------------------------------------------------------------------
(***************************************************************************)
(* Claims about the KZG operations (SpecKzg).                              *)
(***************************************************************************)

\* Every field element of the blob is canonical.
ValidBlob(blob) == \A i \in 1..Len(blob) : blob[i] < BLS_MODULUS

\* p_b(z): the polynomial of degree < FieldElementsPerBlob through the blob's
\* field elements, evaluated from its monomial coefficients.
BlobPolynomialAt(s, blob, z) ==
    LET coeffs == poly_lagrange_to_monomial(s, blob_to_polynomial(blob).poly)
    IN After(coeffs,
             fr_sum([i \in 0..(FieldElementsPerBlob - 1) |->
                       fr_mul(coeffs[i], fr_pow(z, i))], FieldElementsPerBlob))

\* C7: for every valid blob and loaded settings, the commitment and the blob
\* proof are computed without error, and verify_blob_kzg_proof of the blob, its
\* commitment and the proof compute_blob_kzg_proof made for them returns OK with
\* result true.
C7_BlobProofVerifies ==
    /\ (kOp.op \in {"BlobToKZGCommitment", "ComputeBlobKZGProof"} /\ ValidBlob(kBlob))
          => kOp.err = "nil"
    /\ (kOp.op = "VerifyBlobKZGProof" /\ kOp.args.tamper = "none")
          => (kOp.err = "nil" /\ kOp.ok)

\* C7 witness: the untouched proof of a seeded blob has been accepted.
C7_Witness ==
    /\ kOp.op = "VerifyBlobKZGProof"
    /\ kOp.args.tamper = "none"
    /\ kOp.ok
    /\ kBlob = getRandBlob(1)

\* C8: for every valid blob and every canonical z, a root of the domain or
\* not, compute_kzg_proof succeeds with y = p_b(z), and verify_kzg_proof of the
\* commitment, z, y and the proof returns true.
C8_ProofAtAnyPointVerifies ==
    /\ (kOp.op = "ComputeKZGProof" /\ ValidBlob(kBlob) /\ kOp.z \in Fr)
          => /\ kOp.err = "nil"
             /\ kOp.y = bytes_from_bls_field(BlobPolynomialAt(kSetup, kBlob, kOp.z))
    /\ (kOp.op = "VerifyKZGProof" /\ kOp.args.tamper = "none")
          => /\ kOp.err = "nil"
             /\ kOp.ok
             /\ kOp.args.y = bytes_from_bls_field(
                                BlobPolynomialAt(kSetup, kBlob, kOp.args.z))

\* C8 witness: a proof at a root of the domain has been accepted, for a seeded
\* blob.
C8_Witness ==
    /\ kOp.op = "VerifyKZGProof"
    /\ kOp.args.tamper = "none"
    /\ kOp.ok
    /\ DomainIndex(kSetup, kOp.args.z) # {}
    /\ kBlob = getRandBlob(1)

\* At least half of the samples were handed to the last RecoverSamples.
RecoveredFromHalf ==
    /\ kOp.op = "RecoverSamples"
    /\ kOp.count = GetSampleCount
    /\ 2 * Cardinality(kOp.missing) <= GetSampleCount

C10_EveryCellVerifies ==
    /\ (kOp.op = "GetSamplesAndProofs" /\ ValidBlob(kBlob))
          => /\ kOp.err = "nil"
             /\ Len(kSamples) = GetSampleCount
             /\ Len(kProofs) = GetSampleCount
    /\ (kOp.op = "VerifySampleProof" /\ kOp.args.tamper = "none")
          => (kOp.err = "nil" /\ kOp.ok)

\* C10 witness: the last cell of a seeded blob has verified with its proof.
C10_Witness ==
    /\ kOp.op = "VerifySampleProof"
    /\ kOp.args.tamper = "none"
    /\ kOp.args.index = GetSampleCount - 1
    /\ kOp.ok
    /\ kBlob = getRandBlob(1)

\* The verification operations of the binding.
Verifications ==
    {"VerifyKZGProof", "VerifyBlobKZGProof", "VerifyBlobKZGProofBatch",
     "VerifySampleProof"}

\* C11: a verification of well-formed inputs returns status OK whether the
\* pairing check passes or not: a proof that does not match (here a changed,
\* still canonical y) gives result false with no error, and an error is
\* returned only for malformed input.
C11_MismatchIsFalseNotError ==
    kOp.op \in Verifications =>
        /\ (kOp.op # "VerifyBlobKZGProofBatch" /\ kOp.args.tamper # "malformed")
              => kOp.err = "nil"
        /\ (kOp.op = "VerifyBlobKZGProofBatch" /\ kOp.args.blobs > 0
               /\ kOp.args.blobs = kOp.args.commitments
               /\ kOp.args.blobs = kOp.args.proofs)
              => kOp.err = "nil"
        /\ (kOp.op = "VerifyKZGProof" /\ kOp.args.tamper = "y")
              => (kOp.err = "nil" /\ ~kOp.ok)
        /\ (kOp.op # "VerifyBlobKZGProofBatch" /\ kOp.err # "nil")
              => (kOp.args.tamper = "malformed" /\ ~kOp.ok)

\* C11 witness: VerifyKZGProof has returned false, without error, for a
\* changed y.
C11_Witness ==
    /\ kOp.op = "VerifyKZGProof"
    /\ kOp.args.tamper = "y"
    /\ kOp.err = "nil"
    /\ ~kOp.ok
    /\ kBlob = getRandBlob(1)

\* The last RecoverSamples returned err and no samples.
RecoverRefused(err) ==
    kOp.err = err /\ kOp.results = <<<<>>>>

----------------------------------------------------------------------------
(***************************************************************************)
(* Claims about the Metal transform (SpecMetal).                           *)
(***************************************************************************)

\* C14: IFFT after FFT is the identity: when the forward transform of an array
\* x of n field elements (n a power of two) with the roots of unity and then
\* the inverse transform of the result (reverse roots, every element scaled by
\* n^-1) have both returned C_KZG_OK, the result is x.
C14_InverseAfterForwardIsIdentity ==
    (mOp.op = "ifft" /\ mOp.ret = C_KZG_OK) => mOut = mIn

\* A round trip that does return x.
C14_RoundTripHolds ==
    /\ mOp.op = "ifft"
    /\ mOp.ret = C_KZG_OK
    /\ Len(mIn) = MIN_GPU_FFT_SIZE
    /\ mOut = mIn

\* The round trip of x = <<0, 0, 0, 13>> returns another array.
C14_RoundTripFails ==
    /\ mOp.op = "ifft"
    /\ mOp.ret = C_KZG_OK
    /\ mIn = <<ToMontgomery(0), ToMontgomery(0), ToMontgomery(0), ToMontgomery(13)>>
    /\ mOut # mIn

----------------------------------------------------------------------------
(***************************************************************************)
(* Claims about the accelerator (SpecKzg).                                 *)
(***************************************************************************)

\* C15: the GPU-offloaded path is bit-identical to the sequential reference:
\* for every valid blob and loaded settings gpu_compute_cells_and_kzg_proofs
\* returns the same status, the same cells and the same proofs as
\* compute_cells_and_kzg_proofs, and gpu_fr_fft returns the same array as
\* fr_fft (when its allocations succeed).
C15_GpuPathIsBitIdentical ==
    /\ (kOp.op = "gpu_compute_cells_and_kzg_proofs" /\ ValidBlob(kBlob)
           /\ kOp.args.gpuOk)
          => kOp.result = kOp.reference
    /\ (kOp.op = "gpu_fr_fft" /\ kOp.args.allocOk)
          => (kOp.ret = C_KZG_OK /\ kOp.out = kOp.reference)

\* Without a Metal device both functions are the reference's.
C15_FallbackIsReference ==
    /\ kOp.op = "gpu_compute_cells_and_kzg_proofs"
    /\ kOp.args.g_metal_handle = NULL
    /\ ~kOp.args.initOk
    /\ kBlob = getRandBlob(1)
    /\ kOp.result = kOp.reference

\* With a Metal device the cells of the seeded blob differ from the reference's.
C15_GpuCellsDiffer ==
    /\ kOp.op = "gpu_compute_cells_and_kzg_proofs"
    /\ kOp.args.g_metal_handle # NULL
    /\ kBlob = getRandBlob(1)
    /\ kOp.result.ret = C_KZG_OK
    /\ kOp.result.cells # kOp.reference.cells
    /\ kOp.result.proofs # kOp.reference.proofs

----------------------------------------------------------------------------
(***************************************************************************)
(* Claims about readers of one settings (SpecShared).                      *)
(***************************************************************************)

\* Every reader that has finished holds what its operation returns when it
\* runs alone on the settings.
ReadersAgreeWithRunAlone ==
    \A r \in Readers :
        (rd[r].op # "idle" /\ rd[r].done) => rd[r].res = RunAlone(rd[r], src, heap)

----------------------------------------------------------------------------
(***************************************************************************)
(* deserialize_settings and the end of its input (SpecSettings).           *)
(***************************************************************************)

\* C17: deserialize_settings never reads its input at an offset >= data_len:
\* whatever data_len, wbits and table_size are, the copies from the input
\* end at or before data_len, and input that was cut short is rejected.
C17_ReadsStayWithinDataLen ==
    lastOp.op = "deserialize" =>
        /\ lastOp.offset <= lastOp.data_len
        /\ lastOp.variant[1] = "truncate" => lastOp.ret # C_KZG_OK

\* The input as serialize_settings wrote it for loaded settings is read to its
\* last byte and no further.
C17_IntactIsReadExactly ==
    (lastOp.op = "deserialize" /\ lastOp.variant[1] = "intact"
       /\ lastOp.srcLoaded /\ lastOp.ret = C_KZG_OK) =>
        lastOp.offset = lastOp.data_len /\ ~ub

\* Input that ends with its header is accepted: wbits, scratch_size and
\* table_size and all the arrays are copied from beyond the end of the input.
C17_ReadPastEnd ==
    /\ lastOp.op = "deserialize"
    /\ lastOp.variant = <<"truncate", SizeofHeader>>
    /\ lastOp.ret = C_KZG_OK
    /\ lastOp.offset > lastOp.data_len
    /\ ub

----------------------------------------------------------------------------
(***************************************************************************)
(* deserialize_settings when an allocation fails (SpecSettings).           *)
(***************************************************************************)

\* The blocks a call allocated: those the heap has gained.
AllocatedBy(before, after) == (Len(before) + 1)..Len(after)

C18_Step ==
    (lastOp'.op = "deserialize" /\ lastOp' # lastOp
       /\ lastOp'.failAt # 0 /\ lastOp'.nalloc = lastOp'.failAt) =>
      \E again \in {free_settings(out', heap')} :
         \* the allocator's status is returned: MALLOC, or BADARGS for a row
         \* of table_size 0 bytes
         /\ lastOp'.ret \in {C_KZG_MALLOC, C_KZG_BADARGS}
         \* what the call allocated is released exactly once, nothing else is
         /\ Cardinality(AllocatedBy(heap, heap')) = lastOp'.failAt - 1
         /\ \A p \in AllocatedBy(heap, heap') :
              heap'[p].frees = 1 /\ FreeCount(lastOp'.trace, p) = 1
         /\ \A p \in 1..Len(heap) : heap'[p] = heap[p]
         /\ \A i \in 1..Len(lastOp'.trace) :
              lastOp'.trace[i][1] = "free" =>
                  lastOp'.trace[i][2] \in AllocatedBy(heap, heap')
         \* a later free_settings(out) frees nothing
         /\ again.trace = <<>>
         /\ again.heap = heap'
         /\ ~again.ub

\* C18: when an allocation of deserialize_settings fails (a flat array, the
\* column-pointer array, a column row, the tables array or a table row), the
\* call returns the allocator's status, every allocation it had made is
\* released exactly once, and a later free_settings on the output frees
\* nothing a second time.
C18_FailedAllocationIsCleanedUp == [][C18_Step]_vars

\* C18 witness: the allocation of the last table row has failed; the flat
\* arrays, both pointer arrays and all the rows before it were released once.
C18_Witness ==
    /\ lastOp.op = "deserialize"
    /\ lastOp.failAt = NumAllocs
    /\ lastOp.nalloc = NumAllocs
    /\ lastOp.ret = C_KZG_MALLOC
    /\ Len(heap) - lastOp.heapBefore = NumAllocs - 1
    /\ \A p \in (lastOp.heapBefore + 1)..Len(heap) : heap[p].frees = 1
    /\ out = init_settings

----------------------------------------------------------------------------
(***************************************************************************)
(* The size of what serialize_settings writes (SpecSettings).              *)
(***************************************************************************)

\* C19: serialize_settings writes exactly compute_serialized_size(s) bytes:
\* total_size == offset holds whether wbits is 0, or not 0 with or without a
\* tables array; *out_len is that size on success, and 0 when the allocation
\* fails, in which case the allocator's status is returned.
C19_WrittenEqualsComputedSize ==
    lastOp.op = "serialize" =>
        /\ lastOp.total_size = compute_serialized_size(src)
        /\ lastOp.ret = C_KZG_OK =>
             /\ lastOp.offset = lastOp.total_size
             /\ lastOp.assertOK
             /\ out_len = lastOp.total_size
             /\ buf # NULL
             /\ Len(heap[buf].data) = out_len
        /\ lastOp.ret # C_KZG_OK =>
             /\ lastOp.ret = C_KZG_MALLOC
             /\ out_len = 0
             /\ buf = NULL

\* C19 witness: settings with wbits # 0 and no tables array have been
\* serialized; the bytes written stop after the columns.
C19_Witness ==
    /\ lastOp.op = "serialize"
    /\ lastOp.ret = C_KZG_OK
    /\ src.wbits # 0
    /\ src.tables = NULL
    /\ lastOp.offset = compute_serialized_size(src)
    /\ out_len = lastOp.offset

\* Settings with tables have been serialized, tables and all.
C19_WithTables ==
    /\ lastOp.op = "serialize"
    /\ lastOp.ret = C_KZG_OK
    /\ src.wbits # 0
    /\ src.tables # NULL
    /\ out_len = compute_serialized_size([src EXCEPT !.tables = NULL])
                   + CELLS_PER_EXT_BLOB * src.table_size

\* The allocation has failed.
C19_AllocationFailed ==
    lastOp.op = "serialize" /\ lastOp.ret = C_KZG_MALLOC /\ out_len = 0

----------------------------------------------------------------------------
(***************************************************************************)
(* The Go binding under concurrent calls (SpecGoroutines).                 *)
(***************************************************************************)

\* C20: with several goroutines in the binding, no operation's C call runs on
\* settings that FreeTrustedSetup has freed: between an operation's test of
\* loaded and the end of its C call no FreeTrustedSetup frees the settings.
C20_NoCallOnFreedSettings ==
    \A g \in Goroutines :
        (gr[g].op \in Operations /\ gr[g].pc \in {"call", "in_c"}) =>
            settings = "loaded"

\* An operation has passed the test of loaded and is in its C call; another
\* goroutine's FreeTrustedSetup has freed the settings meanwhile.
C20_CallOnFreedSettings ==
    /\ gr[1].op = "BlobToKZGCommitment"
    /\ gr[1].pc = "in_c"
    /\ gr[2].op = "FreeTrustedSetup"
    /\ gr[2].pc = "done"
    /\ settings = "freed"
    /\ ~loaded

----------------------------------------------------------------------------
(***************************************************************************)
(* The forward transform of metal_fr_fft (SpecMetal).                      *)
(***************************************************************************)

\* The primitive n-th root of unity the roots array holds at stride
\* MetalMaxFft / n.
MetalRootOfOrder(n) == MetalPow(MetalRootOfUnity, MetalMaxFft \div n)

\* sum over j < n of x[j] * w^(j * k), by Horner's rule from j = n - 1 down.
RECURSIVE DftSum(_, _, _, _)
DftSum(x, wk, j, acc) ==
    IF j = 0 THEN acc
    ELSE DftSum(x, wk, j - 1, (acc * wk + FromMontgomery(x[j])) % MetalModulus)

\* The discrete Fourier transform of x, in natural order.
Dft(x) ==
    [k \in 1..Len(x) |->
        DftSum(x, MetalPow(MetalRootOfOrder(Len(x)), k - 1), Len(x), 0)] @@ <<>>

\* The values of an array of field elements.
MetalValuesOf(x) == [k \in 1..Len(x) |-> FromMontgomery(x[k])] @@ <<>>

\* C21: for n a power of two and roots w^k of a primitive n-th root of unity
\* w, a metal_fr_fft with inverse = false that ran its kernels (it returned
\* C_KZG_OK) took in in natural order and wrote
\* out[k] = sum over j of in[j] * w^(j * k), in natural order.
C21_ForwardIsDft ==
    (mOp.op = "fft" /\ mOp.ret = C_KZG_OK) => MetalValuesOf(mOut) = Dft(mIn)

\* A forward transform that is the discrete Fourier transform of its input.
C21_ForwardHolds ==
    /\ mOp.op = "fft"
    /\ mOp.ret = C_KZG_OK
    /\ Len(mIn) = MetalMaxFft
    /\ \E k \in 1..Len(mIn) : mIn[k] # ValueLimbs(0)
    /\ MetalValuesOf(mOut) = Dft(mIn)

----------------------------------------------------------------------------
(***************************************************************************)
(* The kernels' threads (SpecThreads).                                     *)
(***************************************************************************)

\* The threads that have computed their indices, and the elements of one.
Indexed == {gid \in Threads : thr[gid].pc # "start"}

ElementsOf(gid) == {thr[gid].i, thr[gid].j}

\* C22: within one stage of fft_radix2_stage on n = 2^k elements the n/2
\* threads access pairwise disjoint pairs (i, i + 2^s) that together cover
\* 0..n-1, every data index is < n and every twiddle index is < n/2; under
\* every interleaving of the threads the stage leaves what the sequential
\* butterfly pass leaves.
C22_StageThreadsAreIndependent ==
    kern.name = "fft_radix2_stage" =>
        /\ \A gid \in Indexed :
             /\ thr[gid].j = thr[gid].i + 2 ^ kern.stage
             /\ thr[gid].j < kern.n
             /\ thr[gid].root_idx < kern.n \div 2
        /\ \A g, h \in Indexed : g # h => ElementsOf(g) \cap ElementsOf(h) = {}
        /\ AllDone =>
             /\ UNION {ElementsOf(gid) : gid \in Threads} = 0..(kern.n - 1)
             /\ dataBuffer = DispatchStage(kern.input, kern.roots, kern.n, kern.stage,
                                           kern.roots_stride_base, 0, kern.n \div 2)

\* A completed stage, not the first one, of the largest buffer: it changed
\* the buffer into what the sequential pass leaves.
C22_Witness ==
    /\ kern.name = "fft_radix2_stage"
    /\ kern.n = 2 ^ LogKernelMaxFft
    /\ kern.stage > 0
    /\ AllDone
    /\ \A gid \in Threads : thr[gid].writes = ElementsOf(gid)
    /\ dataBuffer # kern.input
    /\ dataBuffer = DispatchStage(kern.input, kern.roots, kern.n, kern.stage,
                                  kern.roots_stride_base, 0, kern.n \div 2)

\* Every thread of a stage has read its elements and none has written yet.
C22_AllThreadsInFlight ==
    /\ kern.name = "fft_radix2_stage"
    /\ kern.n = 2 ^ LogKernelMaxFft
    /\ \A gid \in Threads : thr[gid].pc = "store_i"

\* rev of the kernel: the log_n low bits of i, reversed.
Rev(i) == BitReversedIndex(0, i, kern.log_n)

\* C23: for n = 2^log_n, bit_reversal run with one thread per index, in any
\* interleaving, leaves data'[i] = data[rev(i)] for all i < n: each pair
\* {i, rev(i)} is swapped by exactly one thread, the one with gid < rev, no
\* element is written by two threads, and the kernel run twice restores the
\* input.
C23_BitReversalPermutes ==
    kern.name = "bit_reversal" =>
        /\ \A g, h \in Threads : g # h => thr[g].writes \cap thr[h].writes = {}
        /\ \A gid \in Threads :
             thr[gid].writes # {} =>
                 /\ gid < Rev(gid)
                 /\ thr[gid].writes \subseteq {gid, Rev(gid)}
        /\ AllDone =>
             /\ \A i \in 0..(kern.n - 1) : dataBuffer[i + 1] = kern.first[Rev(i) + 1]
             /\ \A i \in 0..(kern.n - 1) :
                  Rev(i) # i =>
                      Cardinality({gid \in Threads : thr[gid].writes = {i, Rev(i)}}) = 1
             /\ kern.pass = 2 => dataBuffer = kern.input

\* The second dispatch on the largest buffer has completed: the first one
\* had permuted the buffer, with more than one thread swapping, and the
\* second one restored it.
C23_Witness ==
    /\ kern.name = "bit_reversal"
    /\ kern.n = 2 ^ LogKernelMaxFft
    /\ kern.pass = 2
    /\ AllDone
    /\ Cardinality({gid \in Threads : thr[gid].writes # {}}) > 1
    /\ kern.first # kern.input
    /\ \A i \in 0..(kern.n - 1) : kern.first[i + 1] = kern.input[Rev(i) + 1]
    /\ dataBuffer = kern.input

\* Two threads of bit_reversal have read their elements and not yet written.
C23_SwapsInFlight ==
    /\ kern.name = "bit_reversal"
    /\ Cardinality({gid \in Threads : thr[gid].pc = "store_gid"}) > 1

----------------------------------------------------------------------------
(***************************************************************************)
(* The kernels' field arithmetic (SpecField).                              *)
(***************************************************************************)

\* The values of the two arguments.
ValueA == LimbsValue(fIn.a)

ValueB == LimbsValue(fIn.b)

\* C24: for all canonical a, b < r, for every limb pattern, fr_sub(a, b)
\* returns (a - b) mod r as a canonical value: the borrow chain computes the
\* exact borrow out of every limb and the modulus is added back exactly when
\* a < b.
C24_SubIsExact ==
    fOp = "fr_sub" =>
        fOut = ValueLimbs((ValueA - ValueB + MetalModulus) % MetalModulus)

\* A subtraction with a < b that is exact: the modulus was added back.
C24_ExactBelow ==
    /\ fOp = "fr_sub"
    /\ ValueA < ValueB
    /\ fOut = ValueLimbs((ValueA - ValueB + MetalModulus) % MetalModulus)

\* Wherever fr_sub is not exact, a limb of b above the lowest has all its
\* bits set.
C24_InexactOnlyWithFullLimb ==
    (fOp = "fr_sub" /\ \A k \in 2..4 : fIn.b[k] # LimbBase - 1) =>
        fOut = ValueLimbs((ValueA - ValueB + MetalModulus) % MetalModulus)

\* C25: for all canonical a, b < r, fr_add(a, b) returns (a + b) mod r as a
\* canonical value: adc returns the low bits of a + b + carry_in and the
\* carry 1 exactly when a + b + carry_in reaches the limb's range, no carry
\* leaves the top limb, and fr_reduce's one conditional subtraction suffices.
C25_AddIsExact ==
    /\ fOp = "fr_add" =>
         /\ LimbsValue(AddLimbs(fIn.a, fIn.b)) = ValueA + ValueB
         /\ fOut = ValueLimbs((ValueA + ValueB) % MetalModulus)
    /\ fOp = "adc" =>
         /\ fOut[1] = (fIn.a + fIn.b + fIn.c) % WideBase
         /\ fOut[2] = IF fIn.a + fIn.b + fIn.c >= WideBase THEN 1 ELSE 0

\* An addition that carries out of its lowest limb and whose sum fr_reduce
\* brings below the modulus.
C25_Witness ==
    /\ fOp = "fr_add"
    /\ fIn.a[1] + fIn.b[1] >= LimbBase
    /\ ValueA + ValueB >= MetalModulus
    /\ fOut = ValueLimbs(ValueA + ValueB - MetalModulus)

\* An adc whose sum wraps to a because of the carry in.
C25_CarryInWraps ==
    /\ fOp = "adc"
    /\ fIn.c = 1
    /\ fIn.b = WideBase - 1
    /\ fOut = <<fIn.a, 1>>

\* C26: for all canonical a, b < r, fr_mul(a, b) returns the Montgomery
\* product a * b / R mod r as a canonical value: mul64 returns the exact low
\* and high halves of the product, mac the exact low half of a * b + c with
\* the high half added to hi, and no limb accumulation loses a carry.
C26_MulIsMontgomeryProduct ==
    /\ fOp = "fr_mul" =>
         fOut = ValueLimbs((ValueA * ValueB * MetalInverse(MontgomeryR)) % MetalModulus)
    /\ fOp = "mul64" => fOut[1] + WideBase * fOut[2] = fIn.a * fIn.b
    /\ fOp = "mac" => fOut[1] + WideBase * fOut[2] = fIn.a * fIn.b + fIn.c

\* The limbs 4..7 of fr_mul's t, before the final reduction.
UnreducedProduct ==
    LET t == MulRounds(fIn.a, fIn.b, <<0, 0, 0, 0, 0, 0, 0, 0>>, 0)
    IN <<t[5], t[6], t[7], t[8]>>

\* A product of two elements with all limbs in use, which the final
\* reduction brings below the modulus.
C26_Witness ==
    /\ fOp = "fr_mul"
    /\ fIn.a[4] # 0
    /\ fIn.b[4] # 0
    /\ LimbsValue(UnreducedProduct) >= MetalModulus
    /\ fOut = ValueLimbs((ValueA * ValueB * MetalInverse(MontgomeryR)) % MetalModulus)

\* A mul64 whose two middle products sum past the limb's range.
C26_MiddleProductsWrap ==
    /\ fOp = "mul64"
    /\ (fIn.a % (2 ^ WideHalfBits)) * (fIn.b \div (2 ^ WideHalfBits))
         + (fIn.a \div (2 ^ WideHalfBits)) * (fIn.b % (2 ^ WideHalfBits)) >= WideBase
    /\ fOut[1] + WideBase * fOut[2] = fIn.a * fIn.b

\* A mac whose addition of c carries into the high limb.
C26_MacCarries ==
    /\ fOp = "mac"
    /\ ((fIn.a * fIn.b) % WideBase) + fIn.c >= WideBase
    /\ fOut[1] + WideBase * fOut[2] = fIn.a * fIn.b + fIn.c

----------------------------------------------------------------------------
(***************************************************************************)
(* Get2dSamples (SpecGo).                                                  *)
(***************************************************************************)

\* C28: whenever the get_2d_samples call of Get2dSamples returns a status
\* other than C_KZG_OK, Get2dSamples returns the error of that status, not
\* nil.
C28_Get2dSamplesPropagatesStatus ==
    (goCall.op = "Get2dSamples" /\ goCall.cCalled /\ goCall.ret # C_KZG_OK) =>
        /\ goCall.err # "nil"
        /\ goCall.err = makeErrorFromRet(goCall.ret)

\* A Get2dSamples that returned the error of the C status: no blobs, so
\* that the loop over the samples did not run.
C28_PropagatedWithoutBlobs ==
    /\ goCall.op = "Get2dSamples"
    /\ goCall.cCalled
    /\ goCall.ret # C_KZG_OK
    /\ goCall.err = makeErrorFromRet(goCall.ret)

\* The other operations return the error of the C status.
C28_OthersPropagateStatus ==
    (goCall.op \in Operations \ {"Get2dSamples"} /\ goCall.cCalled
        /\ goCall.outcome = "return" /\ goCall.ret # C_KZG_OK) =>
        goCall.err # "nil"

----------------------------------------------------------------------------
(***************************************************************************)
(* metal_fr_fft_batch (SpecBatch).                                         *)
(***************************************************************************)

\* The status of transform i of the batch called, by itself.
StatusOf(i) ==
    metal_fr_fft(bOp.outBefore[i], bIn[i], bOp.n, metal_roots_of_unity,
                 MetalMaxFft \div bOp.n, bOp.inverse, bOp.bufferFails[i]).ret

\* The transforms of the batch that fail.
Failing == {i \in 1..Len(bIn) : StatusOf(i) # C_KZG_OK}

\* The first of a non-empty set of indices.
First(S) == CHOOSE i \in S : \A j \in S : i <= j

\* C27: metal_fr_fft_batch completes or fails atomically with respect to its
\* outputs: it returns the status of the first transform that fails and
\* attempts no later one, and when it returns a status other than C_KZG_OK
\* none of the out[i] arrays has been modified.
C27_BatchIsAtomic ==
    (bOp.op = "batch" /\ bOp.ret # C_KZG_OK) =>
        /\ Failing # {}
        /\ bOp.ret = StatusOf(First(Failing))
        /\ bOp.attempted = First(Failing)
        /\ bOut = bOp.outBefore

\* The part of C27 about the status and the transforms attempted: a batch
\* returns C_KZG_OK when no transform fails, and otherwise the status of the
\* first that fails, attempting none after it and leaving their out arrays.
C27_StopsAtFirstFailure ==
    bOp.op = "batch" =>
        IF Failing = {}
          THEN bOp.ret = C_KZG_OK /\ bOp.attempted = Len(bIn)
          ELSE /\ bOp.ret = StatusOf(First(Failing))
               /\ bOp.attempted = First(Failing)
               /\ \A i \in First(Failing)..Len(bIn) : bOut[i] = bOp.outBefore[i]

\* A batch that failed in its second transform and left the first one's
\* result in out[0].
C27_FailedAfterWriting ==
    /\ bOp.op = "batch"
    /\ bOp.ret = C_KZG_MALLOC
    /\ bOp.attempted = 2
    /\ bOut[1] # bOp.outBefore[1]
    /\ bOut[2] = bOp.outBefore[2]

----------------------------------------------------------------------------
(***************************************************************************)
(* The accelerator's global handle (SpecHandle).                           *)
(***************************************************************************)

\* The callers between init_metal_acceleration's test of the handle and its
\* assignment of it.
Initialising == {c \in Callers : caller[c].pc \in {"init", "assign"}}

\* C29: the process-global Metal handle is initialised at most once: under
\* any interleaving of concurrent gpu_compute_cells_and_kzg_proofs and
\* init_metal_acceleration calls, metal_kzg_init is invoked at most once
\* while the handle is unset (no two callers are initialising it, no two
\* contexts exist), and no handle that was created is overwritten without
\* being cleaned up.
C29_HandleInitialisedOnce ==
    /\ Cardinality(Initialising) <= 1
    /\ Cardinality(contexts) <= 1
    /\ lost = {}

\* Two calls, neither of them cleanup_metal_acceleration, have both created
\* a context, and the handle of the first has been overwritten by the second.
C29_ContextLost ==
    /\ \A c \in Callers : caller[c].fn # "cleanup_metal_acceleration"
    /\ Cardinality(contexts) = 2
    /\ lost # {}
    /\ gHandle \in contexts \ lost

\* A handle initialised, cleaned up and initialised again, one context at a
\* time.
C29_InitialisedAgain ==
    /\ nInit = 2
    /\ contexts = {2}
    /\ gHandle = 2
    /\ lost = {}

----------------------------------------------------------------------------
(***************************************************************************)
(* msm_accumulate (SpecMsm).                                               *)
(***************************************************************************)

\* The threads between acquiring and releasing the mutex.
InCriticalSection == {t \in MsmThreads : msm[t].pc \in {"read", "write", "release"}}

\* The sum of the products of threads 0 .. n - 1.
RECURSIVE SumOfProducts(_)
SumOfProducts(n) ==
    IF n = 0 THEN 0
    ELSE SumOfProducts(n - 1)
           + MsmProduct(msmArgs.points[n - 1], msmArgs.scalars[n - 1])

AllAccumulated == \A t \in MsmThreads : msm[t].pc = "done"

\* C30: in msm_accumulate the exchange-based spin lock gives mutual
\* exclusion: in every interleaving at most one thread is between acquiring
\* and releasing the mutex, so once all threads have finished result[0] is
\* its initial value plus the sum of every thread's product and the mutex
\* is 0.
C30_SpinLockExcludes ==
    /\ Cardinality(InCriticalSection) <= 1
    /\ InCriticalSection # {} => mutex = 1
    /\ AllAccumulated =>
         /\ msmResult = msmArgs.result + SumOfProducts(NumMsmThreads)
         /\ mutex = 0

\* All threads have finished and result[0] holds all their products.
C30_Witness ==
    /\ AllAccumulated
    /\ NumMsmThreads > 1
    /\ \A t \in MsmThreads : msm[t].product > 0
    /\ msmResult = msmArgs.result + SumOfProducts(NumMsmThreads)
    /\ msmResult # msmArgs.result
    /\ mutex = 0

\* A thread is in the critical section while all the others spin.
C30_OthersSpin ==
    /\ Cardinality(InCriticalSection) = 1
    /\ \A t \in MsmThreads \ InCriticalSection : msm[t].pc = "spin"

============================================================================
